---- MODULE Spec2Model ----
(***************************************************************************)
(* Idle Dungeon game server: the player registry, the upgrade path, the    *)
(* tick loop and the REST handlers, as state machines over the server's    *)
(* shared records.                                                         *)
(*                                                                         *)
(* Two programs live in the repository: the packaged server               *)
(* (game.Server, internal/models/battle.go) that main.go starts, and the   *)
(* single-file server (GameServer, unnamed/part_000).                      *)
(*                                                                         *)
(*   Spec       game.Server with its goroutines interleaved at the level   *)
(*              of the shared-memory accesses that race                    *)
(*   SpecSeq    game.Server with every handler and tick firing run to      *)
(*              completion before the next starts (no overlap)             *)
(*   SpecLegacy GameServer.getOrCreatePlayer of the single-file server     *)
(*   SpecBattle one processPlayer call, its battle an exchange at a time    *)
(*   SpecConn   game.Server's connections, broadcaster and tick hand-off    *)
(*   SpecMsg    the same with clients that send messages                    *)
(*   SpecLock   the same with every lock acquisition a step, scheduled      *)
(*              fairly                                                      *)
(*   SpecUp     two overlapping UpgradeStation calls on one record, a load  *)
(*              or a store at a time                                        *)
(*   SpecTick   gameLoop's firings over several players                     *)
(*   SpecTerm   simulateBattle where the damages are clamped, scheduled     *)
(*              fairly                                                      *)
(***************************************************************************)
EXTENDS Integers, Sequences, FiniteSets, TLC

VARIABLES
    players,   \* gameState.Players: player identifier -> record reference
    heap,      \* the Player records allocated so far, by reference
    req,       \* the request goroutines: position and locals of each
    tick,      \* the gameLoop goroutine: position and locals
    ticks,     \* ticker firings so far; time.Now() in ticker periods
    ledger,    \* history, per record: gold credited by battles less gold
               \* charged by upgrades
    hist,      \* history, per record: the values its Progress has had with
               \* no victory half applied
    arrived,   \* history: requests arrived so far (Spec)
    last,      \* history: the last call completed (SpecSeq, SpecLegacy)
    battle,    \* one run of simulateBattle and processPlayer (SpecBattle)
    clients,   \* Server.clients: connection -> record reference
    bc,        \* the handleMessages goroutine: position and locals
    conn,      \* the WebSocketHandler goroutines, one per connection: the
               \* socket, position and locals
    fatal,     \* the Go runtime has stopped the process
    locks      \* the two readers-writer locks: who holds each, and how
               \* (SpecLock)

\* the connection side of the server
net == <<clients, bc, conn, fatal, locks>>

vars == <<players, heap, req, tick, ticks, ledger, hist, arrived, last, battle, net>>

\* the goroutines and the histories kept for them
gor == <<req, tick, ledger, hist, arrived>>

(***************************************************************************)
(* Bounds of the model                                                     *)
(***************************************************************************)
\* Requests arrive while the ticker has not fired yet, or after it has fired
\* Quiet times; in SpecSeq the ticker then fires SeqBusy more times.
SeqQuiet == 116   \* SpecSeq: gold 817, four upgrades of one station affordable
SeqBusy == 3
Quiet == 35       \* Spec: gold 250, an upgrade of 100 and one of 150 affordable
MaxArrivals == 4  \* Spec: requests in a run
MaxHPLevel == 2       \* SpecBattle: station levels and dungeon levels
MaxArmorLevel == 7    \* armor 21 outgrows the enemy's attack
MaxLootLevel == 7     \* loot 2
MaxAttackLevel == 3
MaxDungeonLevel == 4
BattleGold == 7
ConnTicks == 2        \* SpecConn: ticker firings
MsgTicks == 1         \* SpecMsg: ticker firings
LockTicks == 1        \* SpecLock: ticker firings
UpGold == 250         \* SpecUp: gold that pays for two upgrades of one station
TickFirings == 2      \* SpecTick: ticker firings
TermStationLevel == 12   \* SpecTerm: level of an upgraded station
TermDungeonLevel == 6    \* SpecTerm: dungeon levels

(***************************************************************************)
(* Program constants                                                       *)
(***************************************************************************)
Nil == 0
baseHP == 100
baseArmor == 10
baseAttack == 20
baseLoot == 1
StartLevel == 1
StartMultiplier == 10     \* 1.0, multipliers are kept in tenths
StartCost == 100
StartDungeonLevel == 1
MultiplierStep == 2       \* += 0.2
NameLen == 8              \* playerID[:8]

StationTypes == {"hp", "armor", "loot", "attack"}

(***************************************************************************)
(* Go arithmetic                                                           *)
(***************************************************************************)
\* a / b on Go ints: the quotient truncated toward zero
Quot(a, b) == IF a >= 0 THEN a \div b ELSE -((-a) \div b)

maxMutSecond(a, b) == b

max(a, b) == IF a > b THEN a ELSE b

\* The float64 reached from 1.0 by repeated += 0.2 is not the nearest double
\* of the decimal its tenths name: after 3, 4, 5 and 6 additions the sum is
\* 1.5999999999999999, 1.7999999999999998, 1.9999999999999998 and
\* 2.1999999999999997. These are the (base, tenths) pairs, up to 3.2, whose
\* float64 product truncates one below base * tenths / 10.
F64Short ==
    { <<100, 18>>, <<100, 20>>, <<100, 22>>,
      <<10, 16>>, <<10, 20>>, <<10, 22>>,
      <<20, 16>>, <<20, 20>>, <<20, 22>>,
      <<1, 20>> }

\* int(float64(base) * multiplier)
TruncMul(base, m10) ==
    (base * m10) \div 10 - (IF <<base, m10>> \in F64Short THEN 1 ELSE 0)

\* int(float64(cost) * 1.5): cost * 1.5 is exact in float64
CostGrowMutUp(cost) == (cost * 3 + 1) \div 2

CostGrow(cost) == (cost * 3) \div 2

(***************************************************************************)
(* models.NewPlayer                                                        *)
(***************************************************************************)
NewStation == [Level |-> StartLevel, Multiplier |-> StartMultiplier, Cost |-> StartCost]

NewFactory == [s \in StationTypes |-> NewStation]

NewProgress == [DungeonLevel |-> StartDungeonLevel, Gold |-> 0, Experience |-> 0]

NewPlayer(id, t) ==
    [ID |-> id, Name |-> "Player " \o id, Factory |-> NewFactory,
     Progress |-> NewProgress, LastSeen |-> t]

(***************************************************************************)
(* Simulation: createHero, simulateBattle, processPlayer                   *)
(***************************************************************************)
createHero(factory) ==
    [HP     |-> TruncMul(baseHP, factory["hp"].Multiplier),
     Armor  |-> TruncMul(baseArmor, factory["armor"].Multiplier),
     Attack |-> TruncMul(baseAttack, factory["attack"].Multiplier),
     Loot   |-> TruncMul(baseLoot, factory["loot"].Multiplier)]

\* if enemyHP <= 0 { break }
EnemyDownMutStrict(enemyHP) == enemyHP < 0

EnemyDown(enemyHP) == enemyHP <= 0

\* the for loop of simulateBattle: the hero's HP when it exits
RECURSIVE BattleLoop(_, _, _, _)
BattleLoop(heroHP, enemyHP, heroDamage, enemyDamage) ==
    IF heroHP > 0 /\ enemyHP > 0
    THEN IF EnemyDown(enemyHP - heroDamage)
         THEN heroHP
         ELSE BattleLoop(heroHP - enemyDamage, enemyHP - heroDamage,
                         heroDamage, enemyDamage)
    ELSE heroHP

\* goldReward := (10 + dungeonLevel*2) * hero.Loot
goldRewardMutLevelOnce(dungeonLevel, hero) == (10 + dungeonLevel) * hero.Loot

goldReward(dungeonLevel, hero) == (10 + dungeonLevel * 2) * hero.Loot

\* expReward := 5 + dungeonLevel
expReward(dungeonLevel) == 5 + dungeonLevel

simulateBattle(hero, dungeonLevel) ==
    LET enemyHP == 50 + dungeonLevel * 10
        enemyAttack == 15 + dungeonLevel * 5
        heroDamage == max(1, hero.Attack - Quot(enemyAttack, 2))
        enemyDamage == max(1, enemyAttack - hero.Armor)
    IN  [Victory    |-> BattleLoop(hero.HP, enemyHP, heroDamage, enemyDamage) > 0,
         GoldReward |-> goldReward(dungeonLevel, hero),
         ExpReward  |-> expReward(dungeonLevel)]

\* the gold processPlayer adds for a battle result
GoldGain(result) ==
    IF result.Victory THEN result.GoldReward ELSE Quot(result.GoldReward, 2)

\* the update of player.Progress by a battle result
ApplyOutcomeMutFullReward(p, result) ==
    IF result.Victory
    THEN [p EXCEPT !.Progress.DungeonLevel = @ + 1,
                   !.Progress.Gold = @ + result.GoldReward,
                   !.Progress.Experience = @ + result.ExpReward]
    ELSE [p EXCEPT !.Progress.Gold = @ + result.GoldReward]

ApplyOutcome(p, result) ==
    IF result.Victory
    THEN [p EXCEPT !.Progress.DungeonLevel = @ + 1,
                   !.Progress.Gold = @ + result.GoldReward,
                   !.Progress.Experience = @ + result.ExpReward]
    ELSE [p EXCEPT !.Progress.Gold = @ + Quot(result.GoldReward, 2)]

processPlayer(p) ==
    ApplyOutcome(p, simulateBattle(createHero(p.Factory), p.Progress.DungeonLevel))

(***************************************************************************)
(* Upgrades: getStationByType, UpgradeStation                              *)
(***************************************************************************)
\* the station the switch selects, by its key; NoStation is the nil of the
\* default branch
NoStation == "nil"

getStationByTypeMutDefault(stationType) ==
    IF stationType \in StationTypes THEN stationType ELSE "hp"

getStationByType(stationType) ==
    CASE stationType = "hp" -> "hp"
      [] stationType = "armor" -> "armor"
      [] stationType = "loot" -> "loot"
      [] stationType = "attack" -> "attack"
      [] OTHER -> NoStation

\* player.Progress.Gold < station.Cost
InsufficientFunds(gold, cost) == gold < cost

\* the four statements of a successful upgrade, one by one; the first writes
\* gold from the gold and the cost it has read
DeductCostMutNewCost(p, gold, cost) == [p EXCEPT !.Progress.Gold = gold - CostGrow(cost)]

DeductCost(p, gold, cost) == [p EXCEPT !.Progress.Gold = gold - cost]

LevelUp(p, k) == [p EXCEPT !.Factory[k].Level = @ + 1]

MultiplierUp(p, k) == [p EXCEPT !.Factory[k].Multiplier = @ + MultiplierStep]

CostUp(p, k) == [p EXCEPT !.Factory[k].Cost = CostGrow(@)]

\* UpgradeStation run without interruption: its result and the record after
UpgradeStation(p, stationType) ==
    LET k == getStationByType(stationType)
    IN  IF k = NoStation
        THEN [ok |-> FALSE, player |-> p]
        ELSE IF InsufficientFunds(p.Progress.Gold, p.Factory[k].Cost)
        THEN [ok |-> FALSE, player |-> p]
        ELSE [ok |-> TRUE,
              player |-> CostUp(MultiplierUp(LevelUp(
                             DeductCost(p, p.Progress.Gold, p.Factory[k].Cost), k), k), k)]

(***************************************************************************)
(* The player registry: GameState.GetPlayer, SetPlayer, GetAllPlayers and  *)
(* Server.GetOrCreatePlayer                                                *)
(***************************************************************************)
PlayerIDs == {"p1"}

\* requests carry one of these station keys
StationInputs == StationTypes \cup {"mana"}

ConcStationInputs == {"armor", "mana"}

GetPlayer(ps, id) == ps[id]

SetPlayer(ps, id, ref) == [ps EXCEPT ![id] = ref]

\* the records the registry holds
GetAllPlayers(ps) == {ps[id] : id \in {i \in DOMAIN ps : ps[i] # Nil}}

\* Server.GetOrCreatePlayer run without interruption at clock t: the registry
\* and the records after it, and the reference it returns
GetOrCreatePlayer(ps, hp, id, t) ==
    IF GetPlayer(ps, id) # Nil
    THEN [players |-> ps,
          heap |-> [hp EXCEPT ![GetPlayer(ps, id)].LastSeen = t],
          ref |-> GetPlayer(ps, id)]
    ELSE [players |-> SetPlayer(ps, id, Len(hp) + 1),
          heap |-> Append(hp, NewPlayer(id, t)),
          ref |-> Len(hp) + 1]

(***************************************************************************)
(* The state after NewServer and Start                                     *)
(***************************************************************************)
\* a request goroutine: its handler (kind), the request's parameters, and the
\* handler's locals: the record GetOrCreatePlayer returned, the gold and the
\* cost read by Gold -= Cost, the gold, cost and level the funds check saw,
\* UpgradeStation's result, and the Progress fields the encoder has read
IdleReq ==
    [pc |-> "idle", kind |-> "", id |-> "", station |-> "", player |-> Nil,
     gold |-> 0, cost |-> 0, reg |-> 0, chk |-> <<>>, ok |-> FALSE, obs |-> <<>>]

NoResult == [Victory |-> FALSE, GoldReward |-> 0, ExpReward |-> 0]

\* the gameLoop goroutine: the records of this firing still to process, the
\* record in processPlayer, its battle result, the gold read by Gold +=
IdleTick == [pc |-> "idle", todo |-> {}, cur |-> Nil, result |-> NoResult, gold |-> 0]

NoCall == [op |-> "none", id |-> "", key |-> "", ok |-> FALSE, pre |-> <<>>, ref |-> Nil]

Requests == {"a", "b"}

\* the request goroutine of SpecLock
LockRequests == {"a"}

\* the connections clients open
Conns == {"c1", "c2"}

\* the connections whose clients send messages
Senders == {"c1"}

\* no simulateBattle is under way
NoBattle == [pc |-> "none"]

\* make(map[*websocket.Conn]*models.Player)
NoClients == [c \in {} |-> Nil]

\* msg["type"].(string) or msg["station"].(string) fails
NotAString == "nil"

\* the lock of the player registry (models.GameState) and Server.mutex, both
\* free: a lock is the set of <<goroutine, mode>> that hold it
LockNames == {"registry", "clients"}

NoLocks == [l \in LockNames |-> {}]

\* the messages clients send, by what json.Unmarshal and the type assertions
\* make of them: malformed JSON, no string "type", a type other than
\* "upgrade", an upgrade with no string "station", and upgrades of a known and
\* of an unknown station
Messages ==
    { [json |-> FALSE, type |-> NotAString, station |-> NotAString],
      [json |-> TRUE, type |-> NotAString, station |-> "armor"],
      [json |-> TRUE, type |-> "chat", station |-> NotAString],
      [json |-> TRUE, type |-> "upgrade", station |-> NotAString],
      [json |-> TRUE, type |-> "upgrade", station |-> "armor"],
      [json |-> TRUE, type |-> "upgrade", station |-> "mana"] }

\* handleMessages waits on the broadcast channel. msg is the payload received,
\* todo the connections the range has yet to visit, cur the one visited;
\* start, sent and failed are history: the registry when the fan-out began,
\* the connections written and the ones whose write failed
IdleBc ==
    [pc |-> "recv", msg |-> 0, todo |-> {}, cur |-> "", start |-> {}, sent |-> {},
     failed |-> {}]

\* a connection not yet opened. sock is the socket ("none", "open", "broken":
\* the peer is gone, "closed": Close was called), id the playerID of the
\* request, player the record GetOrCreatePlayer returned, found the result of
\* GetPlayerByConnection, msg the message in hand (<<>> for none); absent is
\* history: whether RemoveClient found the connection already gone
NewConn ==
    [pc |-> "new", sock |-> "none", id |-> "", player |-> Nil, found |-> Nil,
     msg |-> <<>>, absent |-> FALSE]

Init ==
    /\ players = [id \in PlayerIDs |-> Nil]
    /\ heap = <<>>
    /\ req = [t \in Requests |-> IdleReq]
    /\ tick = IdleTick
    /\ ticks = 0
    /\ ledger = <<>>
    /\ hist = <<>>
    /\ arrived = 0
    /\ last = NoCall
    /\ battle = NoBattle
    /\ clients = NoClients
    /\ bc = IdleBc
    /\ conn = [c \in Conns |-> NewConn]
    /\ fatal = FALSE
    /\ locks = NoLocks

(***************************************************************************)
(* Spec: the goroutines of game.Server, one step per access to the shared  *)
(* registry or to a field that another goroutine writes. Nothing in        *)
(* Server or in the handlers locks a Player record; GetPlayer, SetPlayer   *)
(* and GetAllPlayers are each one step (the registry's own lock).          *)
(* createHero's four multiplier reads are one step, and so is each of      *)
(* Level++, Multiplier += 0.2 and Cost = ...; Gold -= Cost and             *)
(* Gold += reward are a read step and a write step.                        *)
(***************************************************************************)
\* a request may arrive now
Arrival == arrived < MaxArrivals /\ (ticks = 0 \/ ticks >= Quiet)

\* the two request goroutines are interchangeable: the second is taken when
\* the first is busy
Slot(t) == t = "a" \/ req["a"].pc # "idle"

\* processPlayer has written the record's DungeonLevel for a victory and not
\* yet its Experience
MidVictory(tk, r) ==
    tk.cur = r /\ tk.result.Victory /\ tk.pc \in {"goldRead", "goldWrite", "exp"}

\* the fields of a record that a victory writes
Marks(p) == <<p.Progress.DungeonLevel, p.Progress.Gold, p.Progress.Experience>>

\* hist after a step that leaves records hp and gameLoop at tk
Seen(h, hp, tk) ==
    [r \in DOMAIN hp |->
        (IF r \in DOMAIN h THEN h[r] ELSE {})
            \cup (IF MidVictory(tk, r) THEN {} ELSE {Marks(hp[r])})]

\* where a handler goes on after GetOrCreatePlayer
AfterGetOrCreate(kind) == IF kind = "player" THEN "readLevel" ELSE "check"

\* PlayerHandler is entered
PlayerHandlerStart(t, id) ==
    /\ req[t].pc = "idle"
    /\ Slot(t)
    /\ Arrival
    /\ req' = [req EXCEPT ![t] = [IdleReq EXCEPT !.pc = "GetPlayer", !.kind = "player",
                                                 !.id = id]]
    /\ arrived' = arrived + 1
    /\ UNCHANGED <<players, heap, tick, ticks, ledger, hist, last, battle, net>>

\* UpgradeHandler is entered
UpgradeHandlerStart(t, id, station) ==
    /\ req[t].pc = "idle"
    /\ Slot(t)
    /\ Arrival
    /\ req' = [req EXCEPT ![t] = [IdleReq EXCEPT !.pc = "GetPlayer", !.kind = "upgrade",
                                                 !.id = id, !.station = station]]
    /\ arrived' = arrived + 1
    /\ UNCHANGED <<players, heap, tick, ticks, ledger, hist, last, battle, net>>

\* GetOrCreatePlayer: GetPlayer finds the record; LastSeen is set
ReqGetPlayerHit(t) ==
    /\ req[t].pc = "GetPlayer"
    /\ GetPlayer(players, req[t].id) # Nil
    /\ heap' = [heap EXCEPT ![GetPlayer(players, req[t].id)].LastSeen = ticks]
    /\ req' = [req EXCEPT ![t].player = GetPlayer(players, req[t].id),
                          ![t].pc = AfterGetOrCreate(req[t].kind)]
    /\ hist' = Seen(hist, heap', tick)
    /\ UNCHANGED <<players, tick, ticks, ledger, arrived, last, battle, net>>

\* GetOrCreatePlayer: GetPlayer finds nothing; NewPlayer builds a record
ReqGetPlayerMiss(t) ==
    /\ req[t].pc = "GetPlayer"
    /\ GetPlayer(players, req[t].id) = Nil
    /\ heap' = Append(heap, NewPlayer(req[t].id, ticks))
    /\ ledger' = Append(ledger, 0)
    /\ req' = [req EXCEPT ![t].player = Len(heap) + 1, ![t].pc = "SetPlayer"]
    /\ hist' = Seen(hist, heap', tick)
    /\ UNCHANGED <<players, tick, ticks, arrived, last, battle, net>>

\* GetOrCreatePlayer: SetPlayer stores the new record
ReqSetPlayer(t) ==
    /\ req[t].pc = "SetPlayer"
    /\ players' = SetPlayer(players, req[t].id, req[t].player)
    /\ req' = [req EXCEPT ![t].pc = AfterGetOrCreate(req[t].kind)]
    /\ UNCHANGED <<heap, tick, ticks, ledger, hist, arrived, last, battle, net>>

\* what the funds check of UpgradeStation sees of station k of record p
Checked(p, k) == <<p.Progress.Gold, p.Factory[k].Cost, p.Factory[k].Level>>

\* UpgradeStation returns false: unknown station, or too little gold
ReqCheckFail(t) ==
    LET k == getStationByType(req[t].station)
        p == heap[req[t].player]
    IN  /\ req[t].pc = "check"
        /\ \/ k = NoStation
           \/ k # NoStation /\ InsufficientFunds(p.Progress.Gold, p.Factory[k].Cost)
        /\ req' = [req EXCEPT ![t].ok = FALSE, ![t].pc = "done",
                              ![t].chk = IF k = NoStation THEN <<>> ELSE Checked(p, k)]
        /\ UNCHANGED <<players, heap, tick, ticks, ledger, hist, arrived, last, battle, net>>

\* UpgradeStation finds the station and enough gold
ReqCheckPass(t) ==
    LET k == getStationByType(req[t].station)
        p == heap[req[t].player]
    IN  /\ req[t].pc = "check"
        /\ k # NoStation
        /\ ~InsufficientFunds(p.Progress.Gold, p.Factory[k].Cost)
        /\ req' = [req EXCEPT ![t].chk = Checked(p, k), ![t].pc = "deductRead"]
        /\ UNCHANGED <<players, heap, tick, ticks, ledger, hist, arrived, last, battle, net>>

\* player.Progress.Gold -= station.Cost: the operands are read
ReqDeductRead(t) ==
    LET k == getStationByType(req[t].station)
        p == heap[req[t].player]
    IN  /\ req[t].pc = "deductRead"
        /\ req' = [req EXCEPT ![t].gold = p.Progress.Gold, ![t].cost = p.Factory[k].Cost,
                              ![t].pc = "deductWrite"]
        /\ UNCHANGED <<players, heap, tick, ticks, ledger, hist, arrived, last, battle, net>>

\* player.Progress.Gold -= station.Cost: the difference is written
ReqDeductWrite(t) ==
    /\ req[t].pc = "deductWrite"
    /\ heap' = [heap EXCEPT ![req[t].player] = DeductCost(@, req[t].gold, req[t].cost)]
    /\ ledger' = [ledger EXCEPT ![req[t].player] = @ - req[t].cost]
    /\ req' = [req EXCEPT ![t].gold = 0, ![t].cost = 0, ![t].pc = "level"]
    /\ hist' = Seen(hist, heap', tick)
    /\ UNCHANGED <<players, tick, ticks, arrived, last, battle, net>>

\* station.Level++
ReqLevel(t) ==
    /\ req[t].pc = "level"
    /\ heap' = [heap EXCEPT ![req[t].player] = LevelUp(@, getStationByType(req[t].station))]
    /\ req' = [req EXCEPT ![t].pc = "multiplier"]
    /\ UNCHANGED <<players, tick, ticks, ledger, hist, arrived, last, battle, net>>

\* station.Multiplier += 0.2
ReqMultiplier(t) ==
    /\ req[t].pc = "multiplier"
    /\ heap' = [heap EXCEPT ![req[t].player] =
                    MultiplierUp(@, getStationByType(req[t].station))]
    /\ req' = [req EXCEPT ![t].pc = "cost"]
    /\ UNCHANGED <<players, tick, ticks, ledger, hist, arrived, last, battle, net>>

\* station.Cost = int(float64(station.Cost) * 1.5); UpgradeStation returns true
ReqCost(t) ==
    /\ req[t].pc = "cost"
    /\ heap' = [heap EXCEPT ![req[t].player] = CostUp(@, getStationByType(req[t].station))]
    /\ req' = [req EXCEPT ![t].ok = TRUE, ![t].pc = "readLevel"]
    /\ UNCHANGED <<players, tick, ticks, ledger, hist, arrived, last, battle, net>>

\* json.Encode(player) reads Progress.DungeonLevel
ReqReadLevel(t) ==
    /\ req[t].pc = "readLevel"
    /\ req' = [req EXCEPT ![t].obs = <<heap[req[t].player].Progress.DungeonLevel>>,
                          ![t].pc = "readGold"]
    /\ UNCHANGED <<players, heap, tick, ticks, ledger, hist, arrived, last, battle, net>>

\* json.Encode(player) reads Progress.Gold
ReqReadGold(t) ==
    /\ req[t].pc = "readGold"
    /\ req' = [req EXCEPT ![t].obs = Append(@, heap[req[t].player].Progress.Gold),
                          ![t].pc = "readExperience"]
    /\ UNCHANGED <<players, heap, tick, ticks, ledger, hist, arrived, last, battle, net>>

\* json.Encode(player) reads Progress.Experience; the response is complete
ReqReadExperience(t) ==
    /\ req[t].pc = "readExperience"
    /\ req' = [req EXCEPT ![t].obs = Append(@, heap[req[t].player].Progress.Experience),
                          ![t].pc = "done"]
    /\ UNCHANGED <<players, heap, tick, ticks, ledger, hist, arrived, last, battle, net>>

\* the handler returns
ReqDone(t) ==
    /\ req[t].pc = "done"
    /\ req' = [req EXCEPT ![t] = IdleReq]
    /\ UNCHANGED <<players, heap, tick, ticks, ledger, hist, arrived, last, battle, net>>

\* the ticker fires: gameLoop takes GetAllPlayers. The first firing may find
\* requests in flight; the later ones up to the Quiet-th find none, and the
\* requests that arrive after the Quiet-th overlap its processPlayer
TickFire ==
    /\ tick.pc = "idle"
    /\ ticks < Quiet
    /\ (ticks >= 1 /\ ticks < Quiet) => \A t \in Requests : req[t].pc = "idle"
    /\ ticks' = ticks + 1
    /\ tick' = [IdleTick EXCEPT !.pc = "range", !.todo = GetAllPlayers(players)]
    /\ UNCHANGED <<players, heap, req, ledger, hist, arrived, last, battle, net>>

\* processPlayer(r): createHero and simulateBattle
TickBattle(r) ==
    LET result == simulateBattle(createHero(heap[r].Factory), heap[r].Progress.DungeonLevel)
    IN  /\ tick.pc = "range"
        /\ r \in tick.todo
        /\ tick' = [tick EXCEPT !.todo = @ \ {r}, !.cur = r, !.result = result,
                                !.pc = IF result.Victory THEN "level" ELSE "goldRead"]
        /\ UNCHANGED <<players, heap, req, ticks, ledger, hist, arrived, last, battle, net>>

\* player.Progress.DungeonLevel++
TickLevel ==
    /\ tick.pc = "level"
    /\ heap' = [heap EXCEPT ![tick.cur].Progress.DungeonLevel = @ + 1]
    /\ tick' = [tick EXCEPT !.pc = "goldRead"]
    /\ hist' = Seen(hist, heap', tick')
    /\ UNCHANGED <<players, req, ticks, ledger, arrived, last, battle, net>>

\* player.Progress.Gold += ...: gold is read
TickGoldRead ==
    /\ tick.pc = "goldRead"
    /\ tick' = [tick EXCEPT !.gold = heap[tick.cur].Progress.Gold, !.pc = "goldWrite"]
    /\ UNCHANGED <<players, heap, req, ticks, ledger, hist, arrived, last, battle, net>>

\* player.Progress.Gold += ...: the sum is written
TickGoldWrite ==
    /\ tick.pc = "goldWrite"
    /\ heap' = [heap EXCEPT ![tick.cur].Progress.Gold = tick.gold + GoldGain(tick.result)]
    /\ ledger' = [ledger EXCEPT ![tick.cur] = @ + GoldGain(tick.result)]
    /\ tick' = [tick EXCEPT !.gold = 0, !.pc = IF tick.result.Victory THEN "exp" ELSE "range"]
    /\ hist' = Seen(hist, heap', tick')
    /\ UNCHANGED <<players, req, ticks, arrived, last, battle, net>>

\* player.Progress.Experience += battleResult.ExpReward
TickExperience ==
    /\ tick.pc = "exp"
    /\ heap' = [heap EXCEPT ![tick.cur].Progress.Experience = @ + tick.result.ExpReward]
    /\ tick' = [tick EXCEPT !.pc = "range"]
    /\ hist' = Seen(hist, heap', tick')
    /\ UNCHANGED <<players, req, ticks, ledger, arrived, last, battle, net>>

\* every record of the firing is processed: the update is marshalled and
\* offered to the broadcast channel, and gameLoop waits for the ticker
TickSend ==
    /\ tick.pc = "range"
    /\ tick.todo = {}
    /\ tick' = IdleTick
    /\ UNCHANGED <<players, heap, req, ticks, ledger, hist, arrived, last, battle, net>>

Next ==
    \/ \E t \in Requests, id \in PlayerIDs : PlayerHandlerStart(t, id)
    \/ \E t \in Requests, id \in PlayerIDs, station \in ConcStationInputs :
           UpgradeHandlerStart(t, id, station)
    \/ \E t \in Requests :
           \/ ReqGetPlayerHit(t)
           \/ ReqGetPlayerMiss(t)
           \/ ReqSetPlayer(t)
           \/ ReqCheckFail(t)
           \/ ReqCheckPass(t)
           \/ ReqDeductRead(t)
           \/ ReqDeductWrite(t)
           \/ ReqLevel(t)
           \/ ReqMultiplier(t)
           \/ ReqCost(t)
           \/ ReqReadLevel(t)
           \/ ReqReadGold(t)
           \/ ReqReadExperience(t)
           \/ ReqDone(t)
    \/ TickFire
    \/ \E r \in DOMAIN heap : TickBattle(r)
    \/ TickLevel
    \/ TickGoldRead
    \/ TickGoldWrite
    \/ TickExperience
    \/ TickSend

Spec == Init /\ [][Next]_vars

(***************************************************************************)
(* SpecSeq: handlers and tick firings that do not overlap                  *)
(***************************************************************************)
\* a request may arrive now
SeqArrival == ticks = 0 \/ ticks >= SeqQuiet

\* PlayerHandler: GET /api/player?id=
SeqPlayerHandler(id) ==
    LET g == GetOrCreatePlayer(players, heap, id, ticks)
    IN  /\ SeqArrival
        /\ players' = g.players
        /\ heap' = g.heap
        /\ last' = [op |-> "get", id |-> id, key |-> "", ok |-> TRUE,
                    pre |-> IF players[id] = Nil THEN <<>> ELSE <<heap[players[id]]>>,
                    ref |-> g.ref]
        /\ UNCHANGED <<gor, ticks, battle, net>>

\* UpgradeHandler: POST /api/upgrade?playerID=&station=
SeqUpgradeHandler(id, station) ==
    LET g == GetOrCreatePlayer(players, heap, id, ticks)
        u == UpgradeStation(g.heap[g.ref], station)
    IN  /\ SeqArrival
        /\ players' = g.players
        /\ heap' = [g.heap EXCEPT ![g.ref] = u.player]
        /\ last' = [op |-> "upgrade", id |-> id, key |-> station, ok |-> u.ok,
                    pre |-> <<g.heap[g.ref]>>, ref |-> g.ref]
        /\ UNCHANGED <<gor, ticks, battle, net>>

\* one firing of gameLoop's ticker: every registered player fights once
SeqTick ==
    /\ ticks < SeqQuiet + SeqBusy
    /\ ticks' = ticks + 1
    /\ heap' = [r \in DOMAIN heap |->
                  IF r \in GetAllPlayers(players) THEN processPlayer(heap[r]) ELSE heap[r]]
    /\ last' = [NoCall EXCEPT !.op = "tick"]
    /\ UNCHANGED <<players, gor, battle, net>>

NextSeq ==
    \/ \E id \in PlayerIDs : SeqPlayerHandler(id)
    \/ \E id \in PlayerIDs, station \in StationInputs : SeqUpgradeHandler(id, station)
    \/ SeqTick

SpecSeq == Init /\ [][NextSeq]_vars

(***************************************************************************)
(* SpecLegacy: the single-file server. getOrCreatePlayer and gameLoop hold *)
(* gameState.mutex for their whole body; handlers run one after the other. *)
(***************************************************************************)
LegacyIDs == {"p1", "player_01"}

\* "Player " + playerID[:8] panics when the identifier is shorter than 8 bytes
SlicePanics(id) == Len(id) < NameLen

LegacyNewPlayer(id, t) ==
    [ID |-> id, Name |-> "Player " \o SubSeq(id, 1, NameLen), Factory |-> NewFactory,
     Progress |-> NewProgress, LastSeen |-> t]

\* GameServer.getOrCreatePlayer at clock t: the registry and the records after
\* it, the reference it returns, and whether it panicked instead of returning
getOrCreatePlayer(ps, hp, id, t) ==
    IF ps[id] # Nil
    THEN [players |-> ps, heap |-> [hp EXCEPT ![ps[id]].LastSeen = t],
          ref |-> ps[id], panic |-> FALSE]
    ELSE IF SlicePanics(id)
    THEN [players |-> ps, heap |-> hp, ref |-> Nil, panic |-> TRUE]
    ELSE [players |-> [ps EXCEPT ![id] = Len(hp) + 1],
          heap |-> Append(hp, LegacyNewPlayer(id, t)),
          ref |-> Len(hp) + 1, panic |-> FALSE]

\* GameServer.upgradeStation: the record after it
upgradeStation(p, stationType) ==
    LET k == getStationByType(stationType)
    IN  IF k = NoStation THEN p
        ELSE IF p.Progress.Gold >= p.Factory[k].Cost
        THEN CostUp(MultiplierUp(LevelUp(
                 DeductCost(p, p.Progress.Gold, p.Factory[k].Cost), k), k), k)
        ELSE p

InitLegacy ==
    /\ players = [id \in LegacyIDs |-> Nil]
    /\ heap = <<>>
    /\ req = [t \in Requests |-> IdleReq]
    /\ tick = IdleTick
    /\ ticks = 0
    /\ ledger = <<>>
    /\ hist = <<>>
    /\ arrived = 0
    /\ last = NoCall
    /\ battle = NoBattle
    /\ clients = NoClients
    /\ bc = IdleBc
    /\ conn = [c \in Conns |-> NewConn]
    /\ fatal = FALSE
    /\ locks = NoLocks

\* handlePlayer: GET /api/player?id=
LegacyPlayerHandler(id) ==
    LET g == getOrCreatePlayer(players, heap, id, ticks)
    IN  /\ SeqArrival
        /\ players' = g.players
        /\ heap' = g.heap
        /\ last' = [op |-> "get", id |-> id, key |-> "", ok |-> ~g.panic,
                    pre |-> IF players[id] = Nil THEN <<>> ELSE <<heap[players[id]]>>,
                    ref |-> g.ref]
        /\ UNCHANGED <<gor, ticks, battle, net>>

\* handleUpgrade: POST /api/upgrade?playerID=&station=
LegacyUpgradeHandler(id, station) ==
    LET g == getOrCreatePlayer(players, heap, id, ticks)
    IN  /\ SeqArrival
        /\ players' = g.players
        /\ heap' = IF g.panic THEN g.heap
                   ELSE [g.heap EXCEPT ![g.ref] = upgradeStation(@, station)]
        /\ last' = [op |-> "upgrade", id |-> id, key |-> station, ok |-> ~g.panic,
                    pre |-> IF g.panic THEN <<>> ELSE <<g.heap[g.ref]>>,
                    ref |-> g.ref]
        /\ UNCHANGED <<gor, ticks, battle, net>>

\* one firing of GameServer.gameLoop's ticker
LegacyTick ==
    /\ ticks < SeqQuiet + SeqBusy
    /\ ticks' = ticks + 1
    /\ heap' = [r \in DOMAIN heap |->
                  IF r \in GetAllPlayers(players) THEN processPlayer(heap[r]) ELSE heap[r]]
    /\ last' = [NoCall EXCEPT !.op = "tick"]
    /\ UNCHANGED <<players, gor, battle, net>>

NextLegacy ==
    \/ \E id \in LegacyIDs : LegacyPlayerHandler(id)
    \/ \E id \in LegacyIDs, station \in StationInputs : LegacyUpgradeHandler(id, station)
    \/ LegacyTick

SpecLegacy == InitLegacy /\ [][NextLegacy]_vars

(***************************************************************************)
(* SpecConn: the connection side of game.Server: the WebSocketHandler      *)
(* goroutines, handleMessages and gameLoop's hand-off to it. Server.mutex  *)
(* is read-locked exactly while handleMessages is in its range loop;       *)
(* AddClient and RemoveClient hold it exclusively for one step each.       *)
(* A tick firing's processPlayer calls and a connection's UpgradeStation   *)
(* are one step each here; their interleavings are those of Spec.          *)
(***************************************************************************)
\* s.clients[conn] = player
AddClient(cl, c, ref) == [x \in DOMAIN cl \cup {c} |-> IF x = c THEN ref ELSE cl[x]]

\* delete(s.clients, conn)
RemoveClientMutKeeps(cl, c) == cl

RemoveClientMutClears(cl, c) == [x \in {} |-> Nil]

RemoveClient(cl, c) == [x \in DOMAIN cl \ {c} |-> cl[x]]

\* return s.clients[conn]
GetPlayerByConnection(cl, c) == IF c \in DOMAIN cl THEN cl[c] ELSE Nil

\* handleMessages holds s.mutex.RLock
RLocked == bc.pc \in {"range", "close", "delete"}

\* the range over s.clients after the write to c failed and c was deleted
AfterWriteError(todo, c) == todo \ {c}

\* the handler's message is one handleClientMessage does nothing for
Ignored(m) ==
    \/ ~m.json
    \/ m.type = NotAString
    \/ m.type # "upgrade"
    \/ m.station = NotAString

\* everything the connection side does not touch
game == <<req, ledger, hist, arrived, last, battle, locks>>

\* a client connects and the upgrade to a websocket succeeds; the second
\* connection is taken when the first is in use
ConnUpgrade(c, id) ==
    /\ ~fatal
    /\ conn[c].pc = "new"
    /\ c = "c1" \/ conn["c1"].pc # "new"
    /\ conn' = [conn EXCEPT ![c].pc = "GetPlayer", ![c].sock = "open", ![c].id = id]
    /\ UNCHANGED <<players, heap, tick, ticks, clients, bc, fatal, game>>

\* upgrader.Upgrade fails: the handler returns
ConnUpgradeError(c) ==
    /\ ~fatal
    /\ conn[c].pc = "new"
    /\ c = "c1" \/ conn["c1"].pc # "new"
    /\ conn' = [conn EXCEPT ![c].pc = "returned"]
    /\ UNCHANGED <<players, heap, tick, ticks, clients, bc, fatal, game>>

\* the peer goes away: reads and writes of the socket fail from now on
PeerGone(c) ==
    /\ ~fatal
    /\ conn[c].sock = "open"
    /\ conn' = [conn EXCEPT ![c].sock = "broken"]
    /\ UNCHANGED <<players, heap, tick, ticks, clients, bc, fatal, game>>

\* GetOrCreatePlayer: GetPlayer finds the record; LastSeen is set
ConnGetPlayerHit(c) ==
    /\ ~fatal
    /\ conn[c].pc = "GetPlayer"
    /\ GetPlayer(players, conn[c].id) # Nil
    /\ heap' = [heap EXCEPT ![GetPlayer(players, conn[c].id)].LastSeen = ticks]
    /\ conn' = [conn EXCEPT ![c].player = GetPlayer(players, conn[c].id),
                            ![c].pc = "AddClient"]
    /\ UNCHANGED <<players, tick, ticks, clients, bc, fatal, game>>

\* GetOrCreatePlayer: GetPlayer finds nothing; NewPlayer builds a record
ConnGetPlayerMiss(c) ==
    /\ ~fatal
    /\ conn[c].pc = "GetPlayer"
    /\ GetPlayer(players, conn[c].id) = Nil
    /\ heap' = Append(heap, NewPlayer(conn[c].id, ticks))
    /\ conn' = [conn EXCEPT ![c].player = Len(heap) + 1, ![c].pc = "SetPlayer"]
    /\ UNCHANGED <<players, tick, ticks, clients, bc, fatal, game>>

\* GetOrCreatePlayer: SetPlayer stores the new record
ConnSetPlayer(c) ==
    /\ ~fatal
    /\ conn[c].pc = "SetPlayer"
    /\ players' = SetPlayer(players, conn[c].id, conn[c].player)
    /\ conn' = [conn EXCEPT ![c].pc = "AddClient"]
    /\ UNCHANGED <<heap, tick, ticks, clients, bc, fatal, game>>

\* gameServer.AddClient(conn, player)
ConnAddClient(c) ==
    /\ ~fatal
    /\ conn[c].pc = "AddClient"
    /\ ~RLocked
    /\ clients' = AddClient(clients, c, conn[c].player)
    /\ conn' = [conn EXCEPT ![c].pc = "initial"]
    /\ UNCHANGED <<players, heap, tick, ticks, bc, fatal, game>>

\* the initial gameState message is marshalled and BroadcastToClient calls
\* conn.WriteMessage, with no lock held
ConnInitialState(c) ==
    /\ ~fatal
    /\ conn[c].pc = "initial"
    /\ conn' = [conn EXCEPT ![c].pc = "writing"]
    /\ UNCHANGED <<players, heap, tick, ticks, clients, bc, fatal, game>>

\* the handler's conn.WriteMessage returns; BroadcastToClient's error is
\* dropped
ConnInitialStateSent(c) ==
    /\ ~fatal
    /\ conn[c].pc = "writing"
    /\ conn' = [conn EXCEPT ![c].pc = "read"]
    /\ UNCHANGED <<players, heap, tick, ticks, clients, bc, fatal, game>>

\* conn.ReadMessage returns a message
ConnReadMessage(c, m) ==
    /\ ~fatal
    /\ conn[c].pc = "read"
    /\ conn[c].sock = "open"
    /\ conn' = [conn EXCEPT ![c].msg = <<m>>, ![c].pc = "unmarshal"]
    /\ UNCHANGED <<players, heap, tick, ticks, clients, bc, fatal, game>>

\* conn.ReadMessage returns an error: the loop is left
ConnReadError(c) ==
    /\ ~fatal
    /\ conn[c].pc = "read"
    /\ conn[c].sock # "open"
    /\ conn' = [conn EXCEPT ![c].pc = "RemoveClient"]
    /\ UNCHANGED <<players, heap, tick, ticks, clients, bc, fatal, game>>

\* json.Unmarshal fails: the message is skipped
ConnUnmarshalError(c) ==
    /\ ~fatal
    /\ conn[c].pc = "unmarshal"
    /\ ~conn[c].msg[1].json
    /\ conn' = [conn EXCEPT ![c].msg = <<>>, ![c].pc = "read"]
    /\ UNCHANGED <<players, heap, tick, ticks, clients, bc, fatal, game>>

\* json.Unmarshal succeeds: handleClientMessage is called
ConnUnmarshal(c) ==
    /\ ~fatal
    /\ conn[c].pc = "unmarshal"
    /\ conn[c].msg[1].json
    /\ conn' = [conn EXCEPT ![c].pc = "lookup"]
    /\ UNCHANGED <<players, heap, tick, ticks, clients, bc, fatal, game>>

\* handleMessages is inside delete(s.clients, client) under its read lock,
\* which does not keep GetPlayerByConnection out
Deleting == bc.pc = "delete"

\* what GetPlayerByConnection can return to connection c: the entry, or
\* nothing when the entry is being deleted
Lookups(c) ==
    {GetPlayerByConnection(clients, c)} \cup (IF Deleting /\ bc.cur = c THEN {Nil} ELSE {})

\* handleClientMessage: GetPlayerByConnection; without a player it returns
ConnLookup(c) ==
    /\ ~fatal
    /\ conn[c].pc = "lookup"
    /\ \E ref \in Lookups(c) :
           conn' = [conn EXCEPT ![c].found = ref,
                                ![c].msg = IF ref = Nil THEN <<>> ELSE @,
                                ![c].pc = IF ref = Nil THEN "read" ELSE "dispatch"]
    /\ UNCHANGED <<players, heap, tick, ticks, clients, bc, fatal, game>>

\* GetPlayerByConnection reads the map while handleMessages deletes from it:
\* the runtime reports "concurrent map read and map write" and exits
ConnLookupFatal(c) ==
    /\ ~fatal
    /\ conn[c].pc = "lookup"
    /\ Deleting
    /\ fatal' = TRUE
    /\ UNCHANGED <<players, heap, tick, ticks, clients, bc, conn, game>>

\* handleClientMessage: no string type, a type other than "upgrade", or no
\* string station
ConnIgnore(c) ==
    /\ ~fatal
    /\ conn[c].pc = "dispatch"
    /\ Ignored(conn[c].msg[1])
    /\ conn' = [conn EXCEPT ![c].found = Nil, ![c].msg = <<>>, ![c].pc = "read"]
    /\ UNCHANGED <<players, heap, tick, ticks, clients, bc, fatal, game>>

\* handleClientMessage: gameServer.UpgradeStation(player, station)
ConnUpgradeStation(c) ==
    /\ ~fatal
    /\ conn[c].pc = "dispatch"
    /\ ~Ignored(conn[c].msg[1])
    /\ heap' = [heap EXCEPT ![conn[c].found] =
                    UpgradeStation(@, conn[c].msg[1].station).player]
    /\ conn' = [conn EXCEPT ![c].found = Nil, ![c].msg = <<>>, ![c].pc = "read"]
    /\ UNCHANGED <<players, tick, ticks, clients, bc, fatal, game>>

\* the deferred gameServer.RemoveClient(conn)
ConnRemoveClientMutDropsPlayer(c) ==
    /\ ~fatal
    /\ conn[c].pc = "RemoveClient"
    /\ ~RLocked
    /\ clients' = RemoveClient(clients, c)
    /\ players' = [players EXCEPT ![conn[c].id] = Nil]
    /\ conn' = [conn EXCEPT ![c].absent = c \notin DOMAIN clients, ![c].pc = "Close"]
    /\ UNCHANGED <<heap, tick, ticks, bc, fatal, game>>

ConnRemoveClient(c) ==
    /\ ~fatal
    /\ conn[c].pc = "RemoveClient"
    /\ ~RLocked
    /\ clients' = RemoveClient(clients, c)
    /\ conn' = [conn EXCEPT ![c].absent = c \notin DOMAIN clients, ![c].pc = "Close"]
    /\ UNCHANGED <<players, heap, tick, ticks, bc, fatal, game>>

\* the deferred conn.Close(); the handler returns
ConnClose(c) ==
    /\ ~fatal
    /\ conn[c].pc = "Close"
    /\ conn' = [conn EXCEPT ![c].sock = "closed", ![c].pc = "returned"]
    /\ UNCHANGED <<players, heap, tick, ticks, clients, bc, fatal, game>>

\* the ticker fires: gameLoop processes the players of GetAllPlayers and
\* marshals the update; the payload is named by the firing's number
TickFires(bound) ==
    /\ ~fatal
    /\ tick.pc = "idle"
    /\ ticks < bound
    /\ ticks' = ticks + 1
    /\ heap' = [r \in DOMAIN heap |->
                    IF r \in GetAllPlayers(players) THEN processPlayer(heap[r]) ELSE heap[r]]
    /\ tick' = [IdleTick EXCEPT !.pc = "select"]
    /\ UNCHANGED <<players, clients, bc, conn, fatal, game>>

\* s.broadcast is unbuffered: a send goes through only while handleMessages
\* is blocked in its receive
ReceivingMutBuffered(b) == TRUE

Receiving(b) == b.pc = "recv"

\* select: handleMessages is waiting in its receive and takes the payload
ConnTickSend ==
    /\ ~fatal
    /\ tick.pc = "select"
    /\ Receiving(bc)
    /\ bc' = [bc EXCEPT !.msg = ticks, !.pc = "RLock"]
    /\ tick' = IdleTick
    /\ UNCHANGED <<players, heap, ticks, clients, conn, fatal, game>>

\* select: handleMessages is not in its receive; the default case runs
ConnTickDefault ==
    /\ ~fatal
    /\ tick.pc = "select"
    /\ ~Receiving(bc)
    /\ tick' = IdleTick
    /\ UNCHANGED <<players, heap, ticks, clients, bc, conn, fatal, game>>

\* handleMessages: s.mutex.RLock() and the start of the range over s.clients
BcRLock ==
    /\ ~fatal
    /\ bc.pc = "RLock"
    /\ bc' = [bc EXCEPT !.pc = "range", !.todo = DOMAIN clients, !.start = DOMAIN clients,
                        !.sent = {}, !.failed = {}, !.cur = ""]
    /\ UNCHANGED <<players, heap, tick, ticks, clients, conn, fatal, game>>

\* client.WriteMessage succeeds
BcWrite(c) ==
    /\ ~fatal
    /\ bc.pc = "range"
    /\ c \in bc.todo
    /\ conn[c].sock = "open"
    /\ bc' = [bc EXCEPT !.todo = @ \ {c}, !.sent = @ \cup {<<c, bc.msg>>}]
    /\ UNCHANGED <<players, heap, tick, ticks, clients, conn, fatal, game>>

\* client.WriteMessage returns an error
BcWriteError(c) ==
    /\ ~fatal
    /\ bc.pc = "range"
    /\ c \in bc.todo
    /\ conn[c].sock # "open"
    /\ bc' = [bc EXCEPT !.cur = c, !.failed = @ \cup {c}, !.pc = "close"]
    /\ UNCHANGED <<players, heap, tick, ticks, clients, conn, fatal, game>>

\* client.Close()
BcClose ==
    /\ ~fatal
    /\ bc.pc = "close"
    /\ conn' = [conn EXCEPT ![bc.cur].sock = "closed"]
    /\ bc' = [bc EXCEPT !.pc = "delete"]
    /\ UNCHANGED <<players, heap, tick, ticks, clients, fatal, game>>

\* delete(s.clients, client); the range goes on
BcDelete ==
    /\ ~fatal
    /\ bc.pc = "delete"
    /\ clients' = RemoveClient(clients, bc.cur)
    /\ bc' = [bc EXCEPT !.todo = AfterWriteError(@, bc.cur), !.pc = "range"]
    /\ UNCHANGED <<players, heap, tick, ticks, conn, fatal, game>>

\* the range is over: s.mutex.RUnlock() and back to the receive
BcRUnlock ==
    /\ ~fatal
    /\ bc.pc = "range"
    /\ bc.todo = {}
    /\ bc' = IdleBc
    /\ UNCHANGED <<players, heap, tick, ticks, clients, conn, fatal, game>>

ConnTickFire == TickFires(ConnTicks)

MsgTickFire == TickFires(MsgTicks)

\* connections come and go and handleMessages fans out
Link ==
    \/ \E c \in Conns, id \in PlayerIDs : ConnUpgrade(c, id)
    \/ \E c \in Conns :
           \/ ConnUpgradeError(c)
           \/ PeerGone(c)
           \/ ConnGetPlayerHit(c)
           \/ ConnGetPlayerMiss(c)
           \/ ConnSetPlayer(c)
           \/ ConnAddClient(c)
           \/ ConnInitialState(c)
           \/ ConnInitialStateSent(c)
           \/ ConnReadError(c)
           \/ ConnRemoveClient(c)
           \/ ConnClose(c)
           \/ BcWrite(c)
           \/ BcWriteError(c)
    \/ ConnTickSend
    \/ BcRLock
    \/ BcClose
    \/ BcDelete
    \/ BcRUnlock

\* SpecConn: the clients send nothing; the ticker fires ConnTicks times
NextConn ==
    \/ Link
    \/ ConnTickFire
    \/ ConnTickDefault

SpecConn == Init /\ [][NextConn]_vars

\* SpecMsg: the clients of Senders send messages; the ticker fires MsgTicks
\* times
NextMsg ==
    \/ Link
    \/ \E c \in Senders, m \in Messages : ConnReadMessage(c, m)
    \/ \E c \in Senders :
           \/ ConnUnmarshalError(c)
           \/ ConnUnmarshal(c)
           \/ ConnLookup(c)
           \/ ConnLookupFatal(c)
           \/ ConnIgnore(c)
           \/ ConnUpgradeStation(c)
    \/ MsgTickFire

SpecMsg == Init /\ [][NextMsg]_vars

(***************************************************************************)
(* SpecLock: the goroutines of game.Server with the acquisition of a lock  *)
(* a step of its own: two WebSocketHandler goroutines, one PlayerHandler   *)
(* request, gameLoop and handleMessages. GetPlayer and GetAllPlayers hold  *)
(* the player registry's lock for reading and SetPlayer for writing, each  *)
(* until it returns; AddClient and RemoveClient hold Server.mutex for      *)
(* writing, GetPlayerByConnection and the range of handleMessages for      *)
(* reading. A goroutine at a position without ".locked" that names a       *)
(* locked call is waiting for that call's lock. Every goroutine that can   *)
(* take a step of its own is scheduled again, and a handler that can take  *)
(* a lock again and again gets it: a pending Lock of sync.RWMutex keeps    *)
(* new readers out, so the readers that come back do not starve it.        *)
(***************************************************************************)
\* goroutine t holds lock l
HoldsLock(l, t) == \E h \in locks[l] : h[1] = t

\* lock l can be taken in this mode: for writing when nobody holds it, for
\* reading when no writer holds it
Free(l, mode) ==
    IF mode = "w" THEN locks[l] = {} ELSE \A h \in locks[l] : h[2] = "r"

\* Lock() or RLock() returns
Acquire(lk, l, t, mode) == [lk EXCEPT ![l] = @ \cup {<<t, mode>>}]

\* Unlock() or RUnlock()
ReleaseMutKeeps(lk, l, t) == lk

Release(lk, l, t) == [lk EXCEPT ![l] = {h \in @ : h[1] # t}]

\* what the steps of a handler leave alone
handlerFrame == <<tick, ticks, bc, fatal, req, ledger, hist, arrived, last, battle>>

\* GetOrCreatePlayer: s.gameState.GetPlayer takes the registry's read lock
LockGetPlayerRLock(c) ==
    /\ ~fatal
    /\ conn[c].pc = "GetPlayer"
    /\ Free("registry", "r")
    /\ locks' = Acquire(locks, "registry", c, "r")
    /\ conn' = [conn EXCEPT ![c].pc = "GetPlayer.locked"]
    /\ UNCHANGED <<players, heap, clients, handlerFrame>>

\* GetPlayer finds the record and returns; LastSeen is set
LockGetPlayerHit(c) ==
    /\ ~fatal
    /\ conn[c].pc = "GetPlayer.locked"
    /\ GetPlayer(players, conn[c].id) # Nil
    /\ locks' = Release(locks, "registry", c)
    /\ heap' = [heap EXCEPT ![GetPlayer(players, conn[c].id)].LastSeen = ticks]
    /\ conn' = [conn EXCEPT ![c].player = GetPlayer(players, conn[c].id),
                            ![c].pc = "AddClient"]
    /\ UNCHANGED <<players, clients, handlerFrame>>

\* GetPlayer finds nothing and returns; models.NewPlayer
LockGetPlayerMiss(c) ==
    /\ ~fatal
    /\ conn[c].pc = "GetPlayer.locked"
    /\ GetPlayer(players, conn[c].id) = Nil
    /\ locks' = Release(locks, "registry", c)
    /\ heap' = Append(heap, NewPlayer(conn[c].id, ticks))
    /\ conn' = [conn EXCEPT ![c].player = Len(heap) + 1, ![c].pc = "SetPlayer"]
    /\ UNCHANGED <<players, clients, handlerFrame>>

\* s.gameState.SetPlayer takes the registry's write lock
LockSetPlayerLock(c) ==
    /\ ~fatal
    /\ conn[c].pc = "SetPlayer"
    /\ Free("registry", "w")
    /\ locks' = Acquire(locks, "registry", c, "w")
    /\ conn' = [conn EXCEPT ![c].pc = "SetPlayer.locked"]
    /\ UNCHANGED <<players, heap, clients, handlerFrame>>

\* SetPlayer stores the record and returns
LockSetPlayer(c) ==
    /\ ~fatal
    /\ conn[c].pc = "SetPlayer.locked"
    /\ players' = SetPlayer(players, conn[c].id, conn[c].player)
    /\ locks' = Release(locks, "registry", c)
    /\ conn' = [conn EXCEPT ![c].pc = "AddClient"]
    /\ UNCHANGED <<heap, clients, handlerFrame>>

\* AddClient: s.mutex.Lock()
LockAddClientLock(c) ==
    /\ ~fatal
    /\ conn[c].pc = "AddClient"
    /\ Free("clients", "w")
    /\ locks' = Acquire(locks, "clients", c, "w")
    /\ conn' = [conn EXCEPT ![c].pc = "AddClient.locked"]
    /\ UNCHANGED <<players, heap, clients, handlerFrame>>

\* AddClient: s.clients[conn] = player and the deferred Unlock; the initial
\* message is sent
LockAddClient(c) ==
    /\ ~fatal
    /\ conn[c].pc = "AddClient.locked"
    /\ clients' = AddClient(clients, c, conn[c].player)
    /\ locks' = Release(locks, "clients", c)
    /\ conn' = [conn EXCEPT ![c].pc = "read"]
    /\ UNCHANGED <<players, heap, handlerFrame>>

\* a well-formed message is read: handleClientMessage is called
LockReadMessage(c) ==
    /\ ~fatal
    /\ conn[c].pc = "read"
    /\ conn[c].sock = "open"
    /\ conn' = [conn EXCEPT ![c].pc = "lookup"]
    /\ UNCHANGED <<players, heap, clients, locks, handlerFrame>>

\* GetPlayerByConnection: s.mutex.RLock()
LockLookupRLock(c) ==
    /\ ~fatal
    /\ conn[c].pc = "lookup"
    /\ Free("clients", "r")
    /\ locks' = Acquire(locks, "clients", c, "r")
    /\ conn' = [conn EXCEPT ![c].pc = "lookup.locked"]
    /\ UNCHANGED <<players, heap, clients, handlerFrame>>

\* GetPlayerByConnection: return s.clients[conn] and the deferred RUnlock;
\* handleClientMessage returns
LockLookup(c) ==
    /\ ~fatal
    /\ conn[c].pc = "lookup.locked"
    /\ locks' = Release(locks, "clients", c)
    /\ conn' = [conn EXCEPT ![c].pc = "read"]
    /\ UNCHANGED <<players, heap, clients, handlerFrame>>

\* the map read of GetPlayerByConnection meets the delete of handleMessages:
\* the runtime exits
LockLookupFatal(c) ==
    /\ ~fatal
    /\ conn[c].pc = "lookup.locked"
    /\ Deleting
    /\ fatal' = TRUE
    /\ UNCHANGED <<players, heap, clients, conn, locks, tick, ticks, bc, req, ledger, hist,
                   arrived, last, battle>>

\* the deferred RemoveClient: s.mutex.Lock()
LockRemoveClientLock(c) ==
    /\ ~fatal
    /\ conn[c].pc = "RemoveClient"
    /\ Free("clients", "w")
    /\ locks' = Acquire(locks, "clients", c, "w")
    /\ conn' = [conn EXCEPT ![c].pc = "RemoveClient.locked"]
    /\ UNCHANGED <<players, heap, clients, handlerFrame>>

\* RemoveClient: delete(s.clients, conn) and the deferred Unlock
LockRemoveClient(c) ==
    /\ ~fatal
    /\ conn[c].pc = "RemoveClient.locked"
    /\ clients' = RemoveClient(clients, c)
    /\ locks' = Release(locks, "clients", c)
    /\ conn' = [conn EXCEPT ![c].absent = c \notin DOMAIN clients, ![c].pc = "Close"]
    /\ UNCHANGED <<players, heap, handlerFrame>>

\* what the steps of a request leave alone
requestFrame == <<tick, ticks, clients, bc, conn, fatal, ledger, hist, arrived, last, battle>>

\* GET /player: PlayerHandler calls GetOrCreatePlayer
LockRequest(t, id) ==
    /\ ~fatal
    /\ req[t].pc = "idle"
    /\ req' = [req EXCEPT ![t] = [IdleReq EXCEPT !.pc = "GetPlayer", !.kind = "player",
                                                 !.id = id]]
    /\ UNCHANGED <<players, heap, locks, requestFrame>>

LockReqGetPlayerRLock(t) ==
    /\ ~fatal
    /\ req[t].pc = "GetPlayer"
    /\ Free("registry", "r")
    /\ locks' = Acquire(locks, "registry", t, "r")
    /\ req' = [req EXCEPT ![t].pc = "GetPlayer.locked"]
    /\ UNCHANGED <<players, heap, requestFrame>>

\* the record is found; the response is written
LockReqGetPlayerHit(t) ==
    /\ ~fatal
    /\ req[t].pc = "GetPlayer.locked"
    /\ GetPlayer(players, req[t].id) # Nil
    /\ locks' = Release(locks, "registry", t)
    /\ heap' = [heap EXCEPT ![GetPlayer(players, req[t].id)].LastSeen = ticks]
    /\ req' = [req EXCEPT ![t].player = GetPlayer(players, req[t].id), ![t].pc = "done"]
    /\ UNCHANGED <<players, requestFrame>>

LockReqGetPlayerMiss(t) ==
    /\ ~fatal
    /\ req[t].pc = "GetPlayer.locked"
    /\ GetPlayer(players, req[t].id) = Nil
    /\ locks' = Release(locks, "registry", t)
    /\ heap' = Append(heap, NewPlayer(req[t].id, ticks))
    /\ req' = [req EXCEPT ![t].player = Len(heap) + 1, ![t].pc = "SetPlayer"]
    /\ UNCHANGED <<players, requestFrame>>

LockReqSetPlayerLock(t) ==
    /\ ~fatal
    /\ req[t].pc = "SetPlayer"
    /\ Free("registry", "w")
    /\ locks' = Acquire(locks, "registry", t, "w")
    /\ req' = [req EXCEPT ![t].pc = "SetPlayer.locked"]
    /\ UNCHANGED <<players, heap, requestFrame>>

\* the record is stored; the response is written
LockReqSetPlayer(t) ==
    /\ ~fatal
    /\ req[t].pc = "SetPlayer.locked"
    /\ players' = SetPlayer(players, req[t].id, req[t].player)
    /\ locks' = Release(locks, "registry", t)
    /\ req' = [req EXCEPT ![t].pc = "done"]
    /\ UNCHANGED <<heap, requestFrame>>

\* what the steps of gameLoop and handleMessages leave alone
loopFrame == <<players, conn, fatal, req, ledger, hist, arrived, last, battle>>

\* the ticker fires: gameLoop calls GetAllPlayers
LockTickFire ==
    /\ ~fatal
    /\ tick.pc = "idle"
    /\ ticks < LockTicks
    /\ ticks' = ticks + 1
    /\ tick' = [IdleTick EXCEPT !.pc = "GetAllPlayers"]
    /\ UNCHANGED <<heap, clients, bc, locks, loopFrame>>

\* GetAllPlayers takes the registry's read lock
LockGetAllPlayersRLock ==
    /\ ~fatal
    /\ tick.pc = "GetAllPlayers"
    /\ Free("registry", "r")
    /\ locks' = Acquire(locks, "registry", "tick", "r")
    /\ tick' = [tick EXCEPT !.pc = "GetAllPlayers.locked"]
    /\ UNCHANGED <<heap, ticks, clients, bc, loopFrame>>

\* GetAllPlayers returns the slice
LockGetAllPlayers ==
    /\ ~fatal
    /\ tick.pc = "GetAllPlayers.locked"
    /\ locks' = Release(locks, "registry", "tick")
    /\ tick' = [tick EXCEPT !.todo = GetAllPlayers(players), !.pc = "range"]
    /\ UNCHANGED <<heap, ticks, clients, bc, loopFrame>>

\* processPlayer for every player of the slice; the update is marshalled
LockProcessPlayers ==
    /\ ~fatal
    /\ tick.pc = "range"
    /\ heap' = [r \in DOMAIN heap |->
                    IF r \in tick.todo THEN processPlayer(heap[r]) ELSE heap[r]]
    /\ tick' = [IdleTick EXCEPT !.pc = "select"]
    /\ UNCHANGED <<ticks, clients, bc, locks, loopFrame>>

\* handleMessages: s.mutex.RLock() and the start of the range over s.clients
LockBcRLock ==
    /\ ~fatal
    /\ bc.pc = "RLock"
    /\ Free("clients", "r")
    /\ locks' = Acquire(locks, "clients", "bc", "r")
    /\ bc' = [bc EXCEPT !.pc = "range", !.todo = DOMAIN clients, !.start = DOMAIN clients,
                        !.sent = {}, !.failed = {}, !.cur = ""]
    /\ UNCHANGED <<heap, tick, ticks, clients, loopFrame>>

\* the range is over: s.mutex.RUnlock() and back to the receive
LockBcRUnlock ==
    /\ ~fatal
    /\ bc.pc = "range"
    /\ bc.todo = {}
    /\ locks' = Release(locks, "clients", "bc")
    /\ bc' = IdleBc
    /\ UNCHANGED <<heap, tick, ticks, clients, loopFrame>>

\* the steps a handler takes by itself
HandlerStep(c) ==
    \/ LockGetPlayerRLock(c)
    \/ LockGetPlayerHit(c)
    \/ LockGetPlayerMiss(c)
    \/ LockSetPlayerLock(c)
    \/ LockSetPlayer(c)
    \/ LockAddClientLock(c)
    \/ LockAddClient(c)
    \/ LockLookupRLock(c)
    \/ LockLookup(c)
    \/ ConnReadError(c)
    \/ LockRemoveClientLock(c)
    \/ LockRemoveClient(c)
    \/ ConnClose(c)

\* the steps a request takes by itself
RequestStep(t) ==
    \/ LockReqGetPlayerRLock(t)
    \/ LockReqGetPlayerHit(t)
    \/ LockReqGetPlayerMiss(t)
    \/ LockReqSetPlayerLock(t)
    \/ LockReqSetPlayer(t)

\* the steps gameLoop takes once the ticker has fired
LoopStep ==
    \/ LockGetAllPlayersRLock
    \/ LockGetAllPlayers
    \/ LockProcessPlayers
    \/ ConnTickSend

\* the steps of handleMessages once it has a payload; its writes complete
BroadcastStep ==
    \/ LockBcRLock
    \/ \E c \in Conns : BcWrite(c) \/ BcWriteError(c)
    \/ BcClose
    \/ BcDelete
    \/ LockBcRUnlock

\* a client connects; the client that sends messages comes first and the
\* other one joins a player the registry already holds
LockUpgrade(c, id) ==
    /\ c \in Senders \/ players[id] # Nil
    /\ ConnUpgrade(c, id)

\* the client that sends nothing goes away while its handler reads
LockPeerGone(c) ==
    /\ conn[c].pc = "read"
    /\ PeerGone(c)

\* what clients, the ticker and the runtime do
Outside ==
    \/ \E c \in Conns, id \in PlayerIDs : LockUpgrade(c, id)
    \/ \E c \in Conns \ Senders : LockPeerGone(c)
    \/ \E c \in Senders : LockReadMessage(c) \/ LockLookupFatal(c)
    \/ \E t \in LockRequests, id \in PlayerIDs : LockRequest(t, id)
    \/ LockTickFire

NextLock ==
    \/ Outside
    \/ \E c \in Conns : HandlerStep(c)
    \/ \E t \in LockRequests : RequestStep(t)
    \/ LoopStep
    \/ BroadcastStep

SpecLock ==
    /\ Init
    /\ [][NextLock]_vars
    /\ \A c \in Conns : SF_vars(HandlerStep(c))
    /\ \A t \in LockRequests : WF_vars(RequestStep(t))
    /\ WF_vars(LoopStep)
    /\ WF_vars(BroadcastStep)

(***************************************************************************)
(* SpecBattle: one call of processPlayer, its simulateBattle run an        *)
(* exchange at a time, for a player whose stations have been upgraded some *)
(* number of times and whose dungeon level is L.                           *)
(***************************************************************************)
\* a station after level - 1 upgrades
RECURSIVE StationAt(_)
StationAt(level) ==
    IF level = StartLevel
    THEN NewStation
    ELSE [Level      |-> level,
          Multiplier |-> StationAt(level - 1).Multiplier + MultiplierStep,
          Cost       |-> CostGrow(StationAt(level - 1).Cost)]

\* the players processPlayer is run for
BattlePlayers ==
    { [NewPlayer("p1", 0) EXCEPT
          !.Factory = [hp |-> StationAt(lh), armor |-> StationAt(la),
                       loot |-> StationAt(ll), attack |-> StationAt(lk)],
          !.Progress = [DungeonLevel |-> dl, Gold |-> g, Experience |-> 0]] :
        lh \in 1..MaxHPLevel, la \in 1..MaxArmorLevel, ll \in {1, MaxLootLevel},
        lk \in 1..MaxAttackLevel, dl \in 1..MaxDungeonLevel, g \in {0, BattleGold} }

\* the battle of a processPlayer call for player p, before its first step
NewBattle(p) ==
    [pc |-> "start", player |-> p, after |-> p, hero |-> createHero(p.Factory),
     dungeonLevel |-> 0, heroHP |-> 0, enemyHP |-> 0, enemyAttack |-> 0,
     heroDamage |-> 0, enemyDamage |-> 0, strikes |-> 0, counters |-> 0,
     result |-> NoResult]

InitBattle ==
    /\ players = [id \in PlayerIDs |-> Nil]
    /\ heap = <<>>
    /\ req = [t \in Requests |-> IdleReq]
    /\ tick = IdleTick
    /\ ticks = 0
    /\ ledger = <<>>
    /\ hist = <<>>
    /\ arrived = 0
    /\ last = NoCall
    /\ clients = NoClients
    /\ bc = IdleBc
    /\ conn = [c \in Conns |-> NewConn]
    /\ fatal = FALSE
    /\ locks = NoLocks
    /\ \E p \in BattlePlayers : battle = NewBattle(p)

\* everything but battle
world == <<players, heap, req, tick, ticks, ledger, hist, arrived, last, net>>

\* simulateBattle is entered: enemy stats and combat variables
BattleStart ==
    LET dungeonLevel == battle.player.Progress.DungeonLevel
        enemyAttack == 15 + dungeonLevel * 5
    IN  /\ battle.pc = "start"
        /\ battle' = [battle EXCEPT
                         !.pc = "for",
                         !.dungeonLevel = dungeonLevel,
                         !.enemyHP = 50 + dungeonLevel * 10,
                         !.enemyAttack = enemyAttack,
                         !.heroHP = battle.hero.HP,
                         !.heroDamage = max(1, battle.hero.Attack - Quot(enemyAttack, 2)),
                         !.enemyDamage = max(1, enemyAttack - battle.hero.Armor)]
        /\ UNCHANGED world

\* the loop condition holds and the hero attacks
BattleStrike ==
    /\ battle.pc = "for"
    /\ battle.heroHP > 0 /\ battle.enemyHP > 0
    /\ battle' = [battle EXCEPT
                     !.enemyHP = @ - battle.heroDamage,
                     !.strikes = @ + 1,
                     !.pc = IF EnemyDown(battle.enemyHP - battle.heroDamage)
                            THEN "exit" ELSE "counter"]
    /\ UNCHANGED world

\* the enemy counter-attacks
BattleCounter ==
    /\ battle.pc = "counter"
    /\ battle' = [battle EXCEPT !.heroHP = @ - battle.enemyDamage, !.counters = @ + 1,
                                !.pc = "for"]
    /\ UNCHANGED world

\* the loop condition fails
BattleLoopExit ==
    /\ battle.pc = "for"
    /\ ~(battle.heroHP > 0 /\ battle.enemyHP > 0)
    /\ battle' = [battle EXCEPT !.pc = "exit"]
    /\ UNCHANGED world

\* the outcome and the rewards are computed and returned
BattleReturn ==
    /\ battle.pc = "exit"
    /\ battle' = [battle EXCEPT
                     !.pc = "result",
                     !.result = [Victory    |-> battle.heroHP > 0,
                                 GoldReward |-> goldReward(battle.dungeonLevel, battle.hero),
                                 ExpReward  |-> expReward(battle.dungeonLevel)]]
    /\ UNCHANGED world

\* processPlayer updates the player's progress
BattleApply ==
    /\ battle.pc = "result"
    /\ battle' = [battle EXCEPT !.pc = "applied",
                                !.after = ApplyOutcome(battle.player, battle.result)]
    /\ UNCHANGED world

NextBattle ==
    \/ BattleStart
    \/ BattleStrike
    \/ BattleCounter
    \/ BattleLoopExit
    \/ BattleReturn
    \/ BattleApply

SpecBattle == InitBattle /\ [][NextBattle]_vars

(***************************************************************************)
(* SpecTerm: SpecBattle's steps for heroes and dungeon levels at which     *)
(* the max(1, ...) of the two damages decides, with the goroutine that     *)
(* runs processPlayer always scheduled again.                              *)
(***************************************************************************)
\* weak and sturdy heroes at low and high dungeon levels
TermPlayers ==
    { [NewPlayer("p1", 0) EXCEPT
          !.Factory = [hp |-> StationAt(lh), armor |-> StationAt(la),
                       loot |-> StationAt(1), attack |-> StationAt(lk)],
          !.Progress = [DungeonLevel |-> dl, Gold |-> 0, Experience |-> 0]] :
        lh \in {1, TermStationLevel}, la \in {1, TermStationLevel},
        lk \in {1, 2}, dl \in 1..TermDungeonLevel }

InitTerm ==
    /\ players = [id \in PlayerIDs |-> Nil]
    /\ heap = <<>>
    /\ req = [t \in Requests |-> IdleReq]
    /\ tick = IdleTick
    /\ ticks = 0
    /\ ledger = <<>>
    /\ hist = <<>>
    /\ arrived = 0
    /\ last = NoCall
    /\ clients = NoClients
    /\ bc = IdleBc
    /\ conn = [c \in Conns |-> NewConn]
    /\ fatal = FALSE
    /\ locks = NoLocks
    /\ \E p \in TermPlayers : battle = NewBattle(p)

SpecTerm == InitTerm /\ [][NextBattle]_vars /\ WF_vars(NextBattle)

(***************************************************************************)
(* SpecUp: two UpgradeStation calls on one record that overlap, as two     *)
(* connections or requests of one player make them, with every read and    *)
(* every write of the record a step of its own: the calls hold no lock, so *)
(* Level++, Multiplier += 0.2 and the assignment to Cost are each a load    *)
(* and a later store. req[t].reg is the value the call has loaded.          *)
(***************************************************************************)
\* the stations the two calls ask for
UpStations == {"armor", "hp"}

InitUp ==
    /\ players = [id \in PlayerIDs |-> 1]
    /\ \E g \in {StartCost, UpGold} :
           heap = <<[NewPlayer("p1", 0) EXCEPT !.Progress.Gold = g]>>
    /\ req = [t \in Requests |-> IdleReq]
    /\ tick = IdleTick
    /\ ticks = 0
    /\ ledger = <<>>
    /\ hist = <<>>
    /\ arrived = 0
    /\ last = NoCall
    /\ battle = NoBattle
    /\ clients = NoClients
    /\ bc = IdleBc
    /\ conn = [c \in Conns |-> NewConn]
    /\ fatal = FALSE
    /\ locks = NoLocks

\* everything the calls leave alone
still == <<players, tick, ticks, ledger, hist, arrived, last, battle, net>>

\* the station of call t
UpStation(t) == getStationByType(req[t].station)

\* UpgradeStation(player, stationType) is called
UpCall(t, stationType) ==
    /\ req[t].pc = "idle"
    /\ req' = [req EXCEPT ![t] = [IdleReq EXCEPT !.pc = "check", !.kind = "upgrade",
                                                 !.id = "p1", !.station = stationType,
                                                 !.player = GetPlayer(players, "p1")]]
    /\ UNCHANGED <<heap, still>>

\* if player.Progress.Gold < station.Cost { return false }
UpCheckFail(t) ==
    LET p == heap[req[t].player]
    IN  /\ req[t].pc = "check"
        /\ InsufficientFunds(p.Progress.Gold, p.Factory[UpStation(t)].Cost)
        /\ req' = [req EXCEPT ![t].ok = FALSE, ![t].pc = "done"]
        /\ UNCHANGED <<heap, still>>

UpCheckPass(t) ==
    LET p == heap[req[t].player]
    IN  /\ req[t].pc = "check"
        /\ ~InsufficientFunds(p.Progress.Gold, p.Factory[UpStation(t)].Cost)
        /\ req' = [req EXCEPT ![t].pc = "deductRead"]
        /\ UNCHANGED <<heap, still>>

\* player.Progress.Gold -= station.Cost: the loads
UpDeductRead(t) ==
    LET p == heap[req[t].player]
    IN  /\ req[t].pc = "deductRead"
        /\ req' = [req EXCEPT ![t].gold = p.Progress.Gold,
                              ![t].cost = p.Factory[UpStation(t)].Cost,
                              ![t].pc = "deductWrite"]
        /\ UNCHANGED <<heap, still>>

\* player.Progress.Gold -= station.Cost: the store
UpDeductWrite(t) ==
    /\ req[t].pc = "deductWrite"
    /\ heap' = [heap EXCEPT ![req[t].player] = DeductCost(@, req[t].gold, req[t].cost)]
    /\ req' = [req EXCEPT ![t].gold = 0, ![t].cost = 0, ![t].pc = "levelRead"]
    /\ UNCHANGED still

\* station.Level++: the load
UpLevelRead(t) ==
    /\ req[t].pc = "levelRead"
    /\ req' = [req EXCEPT ![t].reg = heap[req[t].player].Factory[UpStation(t)].Level,
                          ![t].pc = "levelWrite"]
    /\ UNCHANGED <<heap, still>>

\* station.Level++: the store
UpLevelWrite(t) ==
    /\ req[t].pc = "levelWrite"
    /\ heap' = [heap EXCEPT ![req[t].player].Factory[UpStation(t)].Level = req[t].reg + 1]
    /\ req' = [req EXCEPT ![t].reg = 0, ![t].pc = "multRead"]
    /\ UNCHANGED still

\* station.Multiplier += 0.2: the load
UpMultRead(t) ==
    /\ req[t].pc = "multRead"
    /\ req' = [req EXCEPT ![t].reg = heap[req[t].player].Factory[UpStation(t)].Multiplier,
                          ![t].pc = "multWrite"]
    /\ UNCHANGED <<heap, still>>

\* station.Multiplier += 0.2: the store
UpMultWrite(t) ==
    /\ req[t].pc = "multWrite"
    /\ heap' = [heap EXCEPT ![req[t].player].Factory[UpStation(t)].Multiplier =
                                req[t].reg + MultiplierStep]
    /\ req' = [req EXCEPT ![t].reg = 0, ![t].pc = "costRead"]
    /\ UNCHANGED still

\* station.Cost = int(float64(station.Cost) * 1.5): the load
UpCostRead(t) ==
    /\ req[t].pc = "costRead"
    /\ req' = [req EXCEPT ![t].reg = heap[req[t].player].Factory[UpStation(t)].Cost,
                          ![t].pc = "costWrite"]
    /\ UNCHANGED <<heap, still>>

\* station.Cost = int(float64(station.Cost) * 1.5): the store; return true
UpCostWrite(t) ==
    /\ req[t].pc = "costWrite"
    /\ heap' = [heap EXCEPT ![req[t].player].Factory[UpStation(t)].Cost = CostGrow(req[t].reg)]
    /\ req' = [req EXCEPT ![t].reg = 0, ![t].ok = TRUE, ![t].pc = "done"]
    /\ UNCHANGED still

NextUp ==
    \/ \E t \in Requests, stationType \in UpStations : UpCall(t, stationType)
    \/ \E t \in Requests :
           \/ UpCheckFail(t)
           \/ UpCheckPass(t)
           \/ UpDeductRead(t)
           \/ UpDeductWrite(t)
           \/ UpLevelRead(t)
           \/ UpLevelWrite(t)
           \/ UpMultRead(t)
           \/ UpMultWrite(t)
           \/ UpCostRead(t)
           \/ UpCostWrite(t)

SpecUp == InitUp /\ [][NextUp]_vars

(***************************************************************************)
(* SpecTick: gameLoop's firings over a registry of several players, a      *)
(* processPlayer call at a time, in every order the slice of GetAllPlayers *)
(* can have, while a new player may be created. last.pre holds the records *)
(* and the snapshot at the start of the firing and hist the records        *)
(* processed so far, in order.                                             *)
(***************************************************************************)
TickIDs == {"p1", "p2", "p3"}

\* "p1" is a new player, "p2" one that has played, "p3" is not known yet
InitTick ==
    /\ players = [id \in TickIDs |-> CASE id = "p1" -> 1 [] id = "p2" -> 2 [] OTHER -> Nil]
    /\ \E la \in 1..MaxArmorLevel, lk \in 1..MaxAttackLevel, dl \in 1..MaxDungeonLevel :
           heap = <<NewPlayer("p1", 0),
                    [NewPlayer("p2", 0) EXCEPT
                        !.Factory["armor"] = StationAt(la),
                        !.Factory["attack"] = StationAt(lk),
                        !.Progress = [DungeonLevel |-> dl, Gold |-> BattleGold,
                                      Experience |-> 0]]>>
    /\ req = [t \in Requests |-> IdleReq]
    /\ tick = IdleTick
    /\ ticks = 0
    /\ ledger = <<>>
    /\ hist = <<>>
    /\ arrived = 0
    /\ last = NoCall
    /\ battle = NoBattle
    /\ clients = NoClients
    /\ bc = IdleBc
    /\ conn = [c \in Conns |-> NewConn]
    /\ fatal = FALSE
    /\ locks = NoLocks

\* the slice that is left to range over after r
RestMutKeeps(todo, r) == todo

Rest(todo, r) == todo \ {r}

\* the ticker fires: players := s.gameState.GetAllPlayers()
FiringStart ==
    /\ tick.pc = "idle"
    /\ ticks < TickFirings
    /\ ticks' = ticks + 1
    /\ tick' = [IdleTick EXCEPT !.pc = "range", !.todo = GetAllPlayers(players)]
    /\ last' = [NoCall EXCEPT !.op = "tick", !.pre = <<heap, GetAllPlayers(players)>>]
    /\ hist' = <<>>
    /\ UNCHANGED <<players, heap, req, ledger, arrived, battle, net>>

\* s.processPlayer(player) for the next player of the slice
FiringProcess(r) ==
    /\ tick.pc = "range"
    /\ r \in tick.todo
    /\ heap' = [heap EXCEPT ![r] = processPlayer(@)]
    /\ tick' = [tick EXCEPT !.todo = Rest(@, r), !.cur = r]
    /\ hist' = Append(hist, r)
    /\ UNCHANGED <<players, req, ticks, ledger, arrived, last, battle, net>>

\* the range is over: the update is marshalled and handed off
FiringEnd ==
    /\ tick.pc = "range"
    /\ tick.todo = {}
    /\ tick' = IdleTick
    /\ UNCHANGED <<players, heap, req, ticks, ledger, hist, arrived, last, battle, net>>

\* a handler's GetOrCreatePlayer creates a player the registry did not hold
FiringArrival(id) ==
    LET got == GetOrCreatePlayer(players, heap, id, ticks)
    IN  /\ GetPlayer(players, id) = Nil
        /\ players' = got.players
        /\ heap' = got.heap
        /\ UNCHANGED <<req, tick, ticks, ledger, hist, arrived, last, battle, net>>

NextTick ==
    \/ FiringStart
    \/ \E r \in DOMAIN heap : FiringProcess(r)
    \/ FiringEnd
    \/ \E id \in TickIDs : FiringArrival(id)

SpecTick == InitTick /\ [][NextTick]_vars

\* simulateBattle has left its loop
BattleOver == battle.pc \in {"exit", "result", "applied"}

\* the hero createHero makes of a new player's factory
DefaultHero == [HP |-> 100, Armor |-> 10, Attack |-> 20, Loot |-> 1]

\* C11: simulateBattle follows the exchange protocol: enemy HP 50 + 10L and
\* attack 15 + 5L, hero damage max(1, attack - enemyAttack/2) and enemy damage
\* max(1, enemyAttack - armor) fixed for the battle; the hero strikes first in
\* each round; the battle ends at the strike that brings enemy HP to 0 or
\* less, with no counter-strike in that round; the result is a victory
\* exactly when hero HP is above 0 at exit. The default hero at level 1 wins
\* on its 6th strike.
C11_ExchangeProtocol ==
    battle.pc \notin {"none", "start"} =>
        LET L == battle.player.Progress.DungeonLevel
            hero == battle.hero
            enemyAttack == 15 + 5 * L
            hd == IF hero.Attack - (enemyAttack \div 2) > 1
                  THEN hero.Attack - (enemyAttack \div 2) ELSE 1
            ed == IF enemyAttack - hero.Armor > 1 THEN enemyAttack - hero.Armor ELSE 1
        IN  /\ battle.heroDamage = hd
            /\ battle.enemyDamage = ed
            /\ battle.enemyHP = 50 + 10 * L - battle.strikes * hd
            /\ battle.heroHP = hero.HP - battle.counters * ed
            /\ battle.counters <= battle.strikes
            /\ battle.strikes <= battle.counters + 1
            /\ battle.pc = "for" => battle.strikes = battle.counters
            /\ battle.pc = "counter" => battle.enemyHP > 0
            /\ BattleOver => battle.heroHP <= 0 \/ battle.enemyHP <= 0
            /\ BattleOver /\ battle.enemyHP <= 0 =>
                   /\ battle.counters = battle.strikes - 1
                   /\ battle.enemyHP + hd > 0
                   /\ battle.heroHP > 0
            /\ battle.pc \in {"result", "applied"} =>
                   /\ battle.result.Victory = (battle.heroHP > 0)
                   /\ battle.result = simulateBattle(hero, L)
                   /\ hero = DefaultHero /\ L = 1 =>
                          battle.result.Victory /\ battle.strikes = 6

C11_Witness ==
    /\ battle.pc = "result"
    /\ battle.hero = DefaultHero
    /\ battle.dungeonLevel = 1
    /\ battle.strikes = 6
    /\ battle.counters = 5
    /\ battle.result.Victory

\* C12: simulateBattle returns goldReward = (10 + 2L) * hero.loot and
\* expReward = 5 + L, for a battle won and for a battle lost (default hero
\* at level 1: 12 and 6).
C12_Rewards ==
    battle.pc \in {"result", "applied"} =>
        LET L == battle.player.Progress.DungeonLevel
        IN  /\ battle.result.GoldReward = (10 + 2 * L) * battle.hero.Loot
            /\ battle.result.ExpReward = 5 + L
            /\ battle.hero = DefaultHero /\ L = 1 =>
                   battle.result.GoldReward = 12 /\ battle.result.ExpReward = 6

C12_Witness ==
    /\ battle.pc = "result"
    /\ ~battle.result.Victory
    /\ battle.hero.Loot = 2
    /\ battle.dungeonLevel = 3
    /\ battle.result.GoldReward = 32
    /\ battle.result.ExpReward = 8

\* C13: processPlayer applies the outcome: on victory dungeonLevel rises by
\* 1, gold by goldReward and experience by expReward; on defeat gold rises by
\* goldReward / 2 (integer division) and dungeonLevel and experience stay; no
\* station field changes in either case.
C13_OutcomeApplied ==
    battle.pc = "applied" =>
        LET before == battle.player
            after == battle.after
            result == battle.result
        IN  /\ result.Victory =>
                   after.Progress =
                       [DungeonLevel |-> before.Progress.DungeonLevel + 1,
                        Gold         |-> before.Progress.Gold + result.GoldReward,
                        Experience   |-> before.Progress.Experience + result.ExpReward]
            /\ ~result.Victory =>
                   after.Progress =
                       [DungeonLevel |-> before.Progress.DungeonLevel,
                        Gold         |-> before.Progress.Gold + (result.GoldReward \div 2),
                        Experience   |-> before.Progress.Experience]
            /\ after.Factory = before.Factory
            /\ after = processPlayer(before)

C13_Witness ==
    /\ battle.pc = "applied"
    /\ ~battle.result.Victory
    /\ battle.result.GoldReward = 16
    /\ battle.player.Progress.Gold = 7
    /\ battle.after.Progress.Gold = 15

\* a request goroutine holds the record GetOrCreatePlayer returned to it
Holds(t) == req[t].pc \notin {"idle", "GetPlayer", "SetPlayer"}

\* C1: GetOrCreatePlayer is atomic per identifier: one record is ever created
\* for an identifier, and two callers that passed the same identifier have
\* received the same record.
C1_OneRecordPerIdentifier ==
    /\ \A r1, r2 \in DOMAIN heap : heap[r1].ID = heap[r2].ID => r1 = r2
    /\ \A t1, t2 \in Requests :
           Holds(t1) /\ Holds(t2) /\ req[t1].id = req[t2].id
               => req[t1].player = req[t2].player

\* UpgradeStation has returned to request goroutine t
Returned(t) ==
    /\ req[t].kind = "upgrade"
    /\ req[t].pc \in {"readLevel", "readGold", "readExperience", "done"}

\* C2: two UpgradeStation calls for the same station of the same player
\* whose funds checks both saw gold equal to the station's cost: one returns
\* success and the other failure.
C2_ExactlyOneSucceeds ==
    \A t1, t2 \in Requests :
        (/\ t1 # t2
         /\ Returned(t1) /\ Returned(t2)
         /\ req[t1].player = req[t2].player
         /\ req[t1].station = req[t2].station
         /\ req[t1].chk # <<>>
         /\ req[t1].chk = req[t2].chk
         /\ req[t1].chk[1] = req[t1].chk[2])
            => req[t1].ok # req[t2].ok

\* a Gold -= Cost or a Gold += reward on record r has read and not yet written
GoldInFlight(r) ==
    \/ tick.pc = "goldWrite" /\ tick.cur = r
    \/ \E t \in Requests : req[t].pc = "deductWrite" /\ req[t].player = r

\* C3: UpgradeStation overlapping processPlayer loses no gold reward and no
\* upgrade cost: whenever no gold update of a record is under way, its gold is
\* the rewards credited to it less the costs charged to it.
C3_NoGoldLost ==
    \A r \in DOMAIN heap : ~GoldInFlight(r) => heap[r].Progress.Gold = ledger[r]

\* C4: in every reachable state every player's gold is at least 0.
C4_GoldNeverNegative ==
    \A r \in DOMAIN heap : heap[r].Progress.Gold >= 0

\* C5: a response never shows a half-applied victory: the dungeonLevel, gold
\* and experience it read are values the record had together, before or after
\* a battle.
C5_NoTornRead ==
    \A t \in Requests :
        req[t].pc = "done" /\ Len(req[t].obs) = 3 => req[t].obs \in hist[req[t].player]

\* C10: once an identifier has a record, the registry keeps that record: no
\* step removes it or puts another in its place.
C10_RecordKept ==
    [][\A id \in PlayerIDs : players[id] # Nil => players'[id] = players[id]]_vars

\* C9: getOrCreate called with an identifier that is not in the registry, of
\* any non-zero length ("p1" included), completes normally, inserts a record
\* for the identifier and returns it with dungeonLevel 1, gold 0, experience
\* 0 and the four stations at level 1, multiplier 1.0, cost 100.
C9_CreatesDefaultRecord ==
    (last.op = "get" /\ last.pre = <<>>) =>
        /\ last.ok
        /\ last.ref # Nil
        /\ players[last.id] = last.ref
        /\ heap[last.ref].ID = last.id
        /\ heap[last.ref].Progress = [DungeonLevel |-> 1, Gold |-> 0, Experience |-> 0]
        /\ \A k \in StationTypes :
               heap[last.ref].Factory[k] = [Level |-> 1, Multiplier |-> 10, Cost |-> 100]

(***************************************************************************)
(* Claims about UpgradeStation, checked under SpecSeq                      *)
(***************************************************************************)
\* the record UpgradeStation was last called on, as it was at the call
LastPre == last.pre[1]

\* the same record now
LastPost == heap[last.ref]

\* the last call was UpgradeStation with a key or a balance that must fail
LastMustFail ==
    \/ last.key \notin StationTypes
    \/ LastPre.Progress.Gold < LastPre.Factory[last.key].Cost

\* C6: an UpgradeStation call whose station key is not hp, armor, attack or
\* loot, or whose player holds less gold than the station costs, returns
\* failure, and a call that returns failure leaves every field of the player
\* (gold, dungeonLevel, experience, the four stations) as it was.
C6_FailedUpgradeChangesNothing ==
    last.op = "upgrade" =>
        /\ LastMustFail => ~last.ok
        /\ ~last.ok => LastPost = LastPre

\* a valid key refused for lack of gold, with some gold held
C6_Witness ==
    /\ last.op = "upgrade"
    /\ ~last.ok
    /\ last.key \in StationTypes
    /\ LastPre.Progress.Gold > 0
    /\ LastPre.Factory[last.key].Level > 1

\* C7: an UpgradeStation call with a valid key and gold >= the station's cost
\* returns success, takes exactly the pre-call cost from gold, adds 1 to the
\* station's level and 0.2 to its multiplier, sets its cost to
\* floor(cost * 1.5) and leaves the other stations, dungeonLevel and
\* experience alone.
C7_SuccessfulUpgrade ==
    (last.op = "upgrade" /\ ~LastMustFail) =>
        LET k == last.key
            before == LastPre.Factory[k]
            after == LastPost.Factory[k]
        IN  /\ last.ok
            /\ LastPost.Progress.Gold = LastPre.Progress.Gold - before.Cost
            /\ after.Level = before.Level + 1
            /\ after.Multiplier = before.Multiplier + 2
            /\ 2 * after.Cost <= 3 * before.Cost
            /\ 3 * before.Cost < 2 * (after.Cost + 1)
            /\ \A o \in StationTypes \ {k} : LastPost.Factory[o] = LastPre.Factory[o]
            /\ LastPost.Progress.DungeonLevel = LastPre.Progress.DungeonLevel
            /\ LastPost.Progress.Experience = LastPre.Progress.Experience

\* a default hp station upgraded: level 2, multiplier 1.2, cost 150
C7_Witness ==
    /\ last.op = "upgrade"
    /\ last.ok
    /\ last.key = "hp"
    /\ LastPre.Factory["hp"] = NewStation
    /\ LastPost.Factory["hp"] = [Level |-> 2, Multiplier |-> 12, Cost |-> 150]
    /\ LastPost.Progress.Gold = LastPre.Progress.Gold - 100

RECURSIVE Pow(_, _)
Pow(b, n) == IF n = 0 THEN 1 ELSE b * Pow(b, n - 1)

\* floor(100 * 1.5^n)
ClosedFormCost(n) == (100 * Pow(3, n)) \div Pow(2, n)

\* 100 taken n times through c -> floor(c * 1.5): 100, 150, 225, 337, 505, 757
RECURSIVE IteratedCost(_)
IteratedCost(n) ==
    IF n = 0 THEN 100 ELSE IteratedCost(n - 1) + IteratedCost(n - 1) \div 2

\* C8 as stated: after n successful upgrades of a station (its level is then
\* n + 1) its cost is floor(100 * 1.5^n).
C8_ClosedFormCost ==
    \A r \in DOMAIN heap : \A k \in StationTypes :
        heap[r].Factory[k].Cost = ClosedFormCost(heap[r].Factory[k].Level - 1)

\* C8 amended: after n successful upgrades of a station its cost is 100 taken
\* n times through c -> floor(c * 1.5), whatever upgrades of the other stations
\* came in between; that is floor(100 * 1.5^n) for n <= 3.
C8_IteratedCost ==
    \A r \in DOMAIN heap : \A k \in StationTypes :
        LET n == heap[r].Factory[k].Level - 1
        IN  /\ heap[r].Factory[k].Cost = IteratedCost(n)
            /\ n <= 3 => heap[r].Factory[k].Cost = ClosedFormCost(n)

\* a station upgraded four times, with another station upgraded too
C8_Witness ==
    \E r \in DOMAIN heap : \E k \in StationTypes :
        /\ heap[r].Factory[k].Level = 5
        /\ heap[r].Factory[k].Cost = 505

(***************************************************************************)
(* Claims about the connection registry and the broadcaster, checked       *)
(* under SpecConn and SpecMsg                                              *)
(***************************************************************************)
\* the connections of the fan-out in progress that were registered at its
\* start, whose write has not failed and that were not written the payload
Unwritten == {c \in bc.start \ bc.failed : <<c, bc.msg>> \notin bc.sent}

\* handleMessages has gone through all of s.clients
FanOutDone == bc.pc = "range" /\ bc.todo = {}

\* C14: in one fan-out a connection whose write failed is removed from the
\* connection registry, and every other connection that was registered when
\* the fan-out began is written the payload of this fan-out: the fan-out
\* reaches its end with no such connection unwritten, and it is not cut
\* short while one is unwritten
C14_FanOutReachesAll ==
    /\ FanOutDone =>
           /\ Unwritten = {}
           /\ \A c \in bc.failed : c \notin DOMAIN clients
           /\ \A e \in bc.sent : e[2] = bc.msg
    /\ ~(fatal /\ RLocked /\ Unwritten # {})

\* C14 where no client sends a message: a fan-out ends with every failed
\* connection removed and every other one written
C14_FanOutWithoutLookups ==
    FanOutDone =>
        /\ Unwritten = {}
        /\ \A c \in bc.failed : c \notin DOMAIN clients
        /\ \A e \in bc.sent : e[2] = bc.msg

\* a fan-out over two connections ends: one write failed, the other went out
C14_Witness ==
    /\ FanOutDone
    /\ bc.failed # {}
    /\ bc.sent # {}

\* the handler of c registered c and has returned
ReturnedAfterRegistration(c) == conn[c].pc = "returned" /\ conn[c].player # Nil

\* C15: once a handler that registered its connection has returned, by
\* whichever exit from the read loop, the connection registry does not hold
\* the connection, no fan-out has it among the connections it writes or has
\* written to, and a fan-out that ends has written to every connection that
\* was registered at its start and did not fail
C15_RemovedOnReturn ==
    \A c \in Conns :
        ReturnedAfterRegistration(c) =>
            /\ c \notin DOMAIN clients
            /\ c \notin bc.todo
            /\ RLocked => c \notin bc.start
            /\ \A e \in bc.sent : e[1] # c
            /\ FanOutDone => Unwritten = {}

\* a handler has unregistered its own connection and returned, and a fan-out
\* that began afterwards has written to the connection that remains
C15_Witness ==
    \E c \in Conns :
        /\ ReturnedAfterRegistration(c)
        /\ ~conn[c].absent
        /\ FanOutDone
        /\ \E d \in Conns \ {c} : <<d, bc.msg>> \in bc.sent

\* gameLoop's select completes in this step
Handoff == tick.pc = "select" /\ tick'.pc = "idle"

\* C16: gameLoop's hand-off never waits for handleMessages: its select can
\* always complete at once; when handleMessages is not in its receive the
\* payload is dropped (the broadcaster's state is untouched, no player or
\* registry state changes) and gameLoop is back at its ticker; and
\* handleMessages gets a new payload only by a hand-off made while it is in
\* its receive holding none, so at most one payload is pending
C16_HandoffNeverBlocks ==
    /\ [](tick.pc = "select" => ENABLED (ConnTickSend \/ ConnTickDefault))
    /\ [][Handoff =>
             /\ Receiving(bc) => bc' = [bc EXCEPT !.msg = ticks, !.pc = "RLock"]
             /\ ~Receiving(bc) => bc' = bc
             /\ UNCHANGED <<players, heap, ticks, clients, conn>>]_vars
    /\ [][bc'.msg # bc.msg /\ bc'.msg # 0 =>
             Handoff /\ bc.pc = "recv" /\ bc.msg = 0 /\ bc.todo = {}]_vars

\* the second firing's payload was dropped while handleMessages was still
\* fanning out the first, and gameLoop is back at its ticker
C16_Witness ==
    /\ ticks = 2
    /\ tick.pc = "idle"
    /\ RLocked
    /\ bc.msg = 1

\* C17: RemoveClient of a connection the registry does not hold returns the
\* registry as it is; RemoveClient never touches another connection's
\* entry; RemoveClient twice is RemoveClient once; and a handler's deferred
\* RemoveClient that finds its connection already removed by handleMessages
\* leaves the registry unchanged and goes on to Close
C17_RemoveAbsentIsNoOp ==
    /\ [](\A c \in Conns :
            /\ c \notin DOMAIN clients => RemoveClient(clients, c) = clients
            /\ DOMAIN RemoveClient(clients, c) = DOMAIN clients \ {c}
            /\ \A d \in DOMAIN clients \ {c} : RemoveClient(clients, c)[d] = clients[d]
            /\ RemoveClient(RemoveClient(clients, c), c) = RemoveClient(clients, c))
    /\ [][\A c \in Conns :
            (conn[c].pc = "RemoveClient" /\ conn'[c].pc # "RemoveClient"
                /\ c \notin DOMAIN clients) =>
                    clients' = clients /\ conn'[c].pc = "Close"]_vars

\* a handler's RemoveClient has run on a connection handleMessages had
\* removed after a failed write, while another connection is registered
C17_Witness ==
    \E c \in Conns :
        /\ conn[c].absent
        /\ conn[c].player # Nil
        /\ conn[c].pc \in {"Close", "returned"}
        /\ \E d \in Conns \ {c} : d \in DOMAIN clients

\* the handler of c holds a message that handleClientMessage does nothing for
HoldsIgnored(c) == conn[c].msg # <<>> /\ Ignored(conn[c].msg[1])

\* no step of a handler that holds such a message changes a player record,
\* the player registry or the connection registry
IgnoredChangesNothing ==
    [][\A c \in Conns :
          HoldsIgnored(c) /\ conn'[c] # conn[c] => UNCHANGED <<players, heap, clients>>]_vars

\* the server does not exit while a handler is looking up the player for
\* such a message
IgnoredLoopGoesOn == [](~(fatal /\ \E c \in Conns : HoldsIgnored(c) /\ conn[c].pc = "lookup"))

\* C18: an inbound message that is malformed JSON, has no string type, has a
\* type other than "upgrade" or is an upgrade without a string station
\* changes no player state and no registry state, and the handler's read
\* loop goes on to the next message
C18_IgnoredMessage == IgnoredChangesNothing /\ IgnoredLoopGoesOn

\* this step is an operation on the connection registry: AddClient,
\* RemoveClient or handleMessages' delete changes s.clients, or a handler
\* leaves its GetPlayerByConnection
RegistryOperation ==
    \/ clients' # clients
    \/ \E c \in Conns : conn[c].pc = "lookup" /\ conn'[c].pc # "lookup"
    \/ \E c \in Conns : conn[c].pc = "AddClient" /\ conn'[c].pc # "AddClient"
    \/ \E c \in Conns : conn[c].pc = "RemoveClient" /\ conn'[c].pc # "RemoveClient"
    \/ bc.pc = "delete" /\ bc'.pc # "delete"

\* C19: no operation on the connection registry adds a record to, removes a
\* record from or replaces a record in the player registry, or changes a
\* record
C19_RegistryLeavesPlayers ==
    [][RegistryOperation => players' = players /\ heap' = heap]_vars

\* a connection was registered, looked up, and another was registered and
\* unregistered, and the player registry still holds the record
C19_Witness ==
    \E c \in Conns, d \in Conns :
        /\ c # d
        /\ conn[c].pc = "dispatch"
        /\ conn[c].found # Nil
        /\ ReturnedAfterRegistration(d)
        /\ players[conn[d].id] = conn[d].player
        /\ bc.failed # {}

(***************************************************************************)
(* Claims about the dungeon level, checked under Spec                      *)
(***************************************************************************)
\* the dungeon level of the player the registry holds for id
LevelOf(id) == heap[players[id]].Progress.DungeonLevel

\* C20: for every player the dungeon level is at least 1, a step leaves it
\* as it is or raises it by exactly 1, and the only step that changes it is
\* the DungeonLevel++ of the tick's victory path
C20_LevelNeverDecreases ==
    /\ [](\A id \in PlayerIDs : players[id] # Nil => LevelOf(id) >= 1)
    /\ [][\A id \in PlayerIDs :
            (players[id] # Nil /\ players'[id] # Nil) =>
                /\ LevelOf(id)' \in {LevelOf(id), LevelOf(id) + 1}
                /\ LevelOf(id)' # LevelOf(id) =>
                       tick.pc = "level" /\ tick'.pc = "goldRead"]_vars

\* the same for each record taken by itself, whether or not the registry
\* still holds it
C20_RecordLevelNeverDecreases ==
    /\ [](\A r \in DOMAIN heap : heap[r].Progress.DungeonLevel >= 1)
    /\ [][\A r \in DOMAIN heap :
            LET old == heap[r].Progress.DungeonLevel
                new == heap'[r].Progress.DungeonLevel
            IN  /\ new \in {old, old + 1}
                /\ new # old => tick.pc = "level" /\ tick'.pc = "goldRead"]_vars

(***************************************************************************)
(* Claims about the locks of game.Server, checked under SpecConn, SpecMsg  *)
(* and SpecLock                                                            *)
(***************************************************************************)
\* handleMessages calls client.WriteMessage in this step
BroadcastWrite == bc'.sent # bc.sent \/ bc'.failed # bc.failed

\* a handler is held up in AddClient or RemoveClient by the lock
WaitsForLock(c) == conn[c].pc \in {"AddClient", "RemoveClient"} /\ RLocked

\* C21: handleMessages writes to a connection only while s.mutex is
\* released, and no handler waits in AddClient or RemoveClient for a
\* fan-out that still has connections to write to
C21_WritesOutsideLock ==
    /\ [][BroadcastWrite => ~RLocked]_vars
    /\ [](\A c \in Conns : ~(WaitsForLock(c) /\ bc.todo # {}))

\* a handler is inside GetPlayerByConnection
LookingUp(c) == conn[c].pc = "lookup"

\* C22: every step that changes s.clients is taken while no task holds
\* s.mutex for reading, the delete of handleMessages is never in progress
\* while a handler is inside GetPlayerByConnection, and so the runtime never
\* meets a map read that overlaps a map write
C22_MutationUnderExclusiveLock ==
    /\ [][clients' # clients => ~RLocked]_vars
    /\ [](\A c \in Conns : ~(Deleting /\ LookingUp(c)))
    /\ [](~fatal)

\* C27: every record the connection registry holds is the record the player
\* registry holds for that record's identifier
C27_RegistryHoldsCurrentRecord ==
    \A c \in DOMAIN clients : GetPlayer(players, heap[clients[c]].ID) = clients[c]

\* handleMessages calls c.WriteMessage in this step
BroadcastWriteTo(c) ==
    /\ bc.pc = "range"
    /\ \/ <<c, bc.msg>> \in bc'.sent \ bc.sent
       \/ c \in bc'.failed \ bc.failed

\* the handler of c is inside the conn.WriteMessage of its initial message
HandlerWriting(c) == conn[c].pc = "writing"

\* C26: handleMessages never writes to a connection while that connection's
\* handler is inside the write of its initial gameState message
C26_OneWriterPerConnection ==
    [][\A c \in Conns : BroadcastWriteTo(c) => ~HandlerWriting(c)]_vars

(***************************************************************************)
(* Claims about termination, checked under SpecTerm                        *)
(***************************************************************************)
\* C28: in simulateBattle both damages are at least 1, the hero has struck
\* at most as often as the enemy had HP at the start (50 + 10L), every
\* strike lowers the enemy's HP, and the battle and the processPlayer call
\* around it come to their end
C28_BattleTerminates ==
    /\ [](battle.pc \notin {"none", "start"} =>
            /\ battle.heroDamage >= 1
            /\ battle.enemyDamage >= 1
            /\ battle.strikes <= 50 + 10 * battle.dungeonLevel
            /\ battle.enemyHP <= 50 + 10 * battle.dungeonLevel - battle.strikes)
    /\ <>(battle.pc = "applied")

\* a battle is over in which the hero's damage was clamped to 1 and the
\* exchange went on for 40 strikes
C28_Witness ==
    /\ battle.pc = "applied"
    /\ battle.hero.Attack - Quot(battle.enemyAttack, 2) < 1
    /\ battle.heroDamage = 1
    /\ battle.strikes >= 40

(***************************************************************************)
(* Claims about a tick firing, checked under SpecTick                      *)
(***************************************************************************)
\* the records as they were when the firing in progress, or the last one,
\* began, and the snapshot it took
Before == last.pre[1]

Snapshot == last.pre[2]

\* the records the firing has processed
Processed == {hist[i] : i \in 1..Len(hist)}

\* C25: in a firing every record of the snapshot is processed once (it holds
\* the outcome of one battle fought from its state at the start of the
\* firing, or is still as it was), a record that is not in the snapshot is
\* not processed, a processPlayer call changes no other record, and when the
\* firing is over every record of the snapshot holds that one outcome,
\* whatever the order of the slice was
C25_OneBattlePerPlayer ==
    /\ [](last.op = "tick" =>
            /\ Len(hist) = Cardinality(Processed)
            /\ Processed \cup tick.todo = Snapshot
            /\ \A r \in Snapshot :
                   heap[r] = IF r \in Processed THEN processPlayer(Before[r]) ELSE Before[r]
            /\ \A r \in DOMAIN heap \ Snapshot :
                   IF r \in DOMAIN Before THEN heap[r] = Before[r]
                   ELSE heap[r].Progress = NewProgress
            /\ tick.pc = "idle" => Processed = Snapshot)
    /\ [][\A r \in DOMAIN heap :
            hist' = Append(hist, r) =>
                \A q \in DOMAIN heap \ {r} : heap'[q] = heap[q]]_vars

\* a firing is over that processed two players, the second of the registry
\* first, while a third player arrived during the firing and was left alone
C25_Witness ==
    /\ last.op = "tick"
    /\ tick.pc = "idle"
    /\ hist = <<2, 1>>
    /\ Len(heap) = 3
    /\ Len(Before) = 2
    /\ heap[1] # Before[1]
    /\ heap[2] # Before[2]

(***************************************************************************)
(* Claims about the stations, checked under SpecUp                         *)
(***************************************************************************)
\* no UpgradeStation call is in progress
NoUpgradeRunning == \A t \in Requests : req[t].pc \in {"idle", "done"}

\* the station's multiplier, in tenths, is the one of its level
MultiplierOfLevel(station) ==
    /\ station.Level >= StartLevel
    /\ station.Multiplier = StartMultiplier + MultiplierStep * (station.Level - 1)

\* C24: whenever no upgrade is half done, every station of every player has
\* level >= 1 and multiplier = 1.0 + 0.2 * (level - 1), also after upgrades
\* of one station that overlapped
C24_MultiplierMatchesLevel ==
    NoUpgradeRunning =>
        \A r \in DOMAIN heap : \A k \in StationTypes : MultiplierOfLevel(heap[r].Factory[k])


(***************************************************************************)
(* Claims about the order of the locks, checked under SpecLock             *)
(***************************************************************************)
\* the goroutines of SpecLock
Tasks == Conns \cup LockRequests \cup {"tick", "bc"}

\* where goroutine t is
Position(t) ==
    IF t \in Conns THEN conn[t].pc
    ELSE IF t \in LockRequests THEN req[t].pc
    ELSE IF t = "tick" THEN tick.pc
    ELSE bc.pc

\* the positions at which a goroutine has called Lock or RLock and waits
LockCalls ==
    {"GetPlayer", "SetPlayer", "AddClient", "lookup", "RemoveClient", "GetAllPlayers",
     "RLock"}

Waiting(t) == Position(t) \in LockCalls

\* no goroutine holds the registry's lock and Server.mutex together
NeverNested == \A t \in Tasks : ~(HoldsLock("registry", t) /\ HoldsLock("clients", t))

\* C23: no goroutine ever holds the player registry's lock and the connection
\* registry's lock at the same time, and with gameLoop, handleMessages, two
\* connection handlers and a REST request running, every goroutine that waits
\* for a lock gets past the wait (always eventually it is not waiting), as
\* long as the process runs and the writes of the broadcaster complete; a
\* state in which a goroutine waits and nothing can move would break it.
C23_LocksNeverNestedNoDeadlock ==
    /\ []NeverNested
    /\ \A t \in Tasks : []<>(~Waiting(t) \/ fatal)

\* a handler waits for Server.mutex while the broadcaster holds it for
\* reading, the request holds the registry's lock for writing and the other
\* handler waits for the registry's lock
C23_Witness ==
    /\ ~fatal
    /\ \E c \in Conns : conn[c].pc = "AddClient" /\ ~Free("clients", "w")
    /\ HoldsLock("clients", "bc")
    /\ \E t \in LockRequests : <<t, "w">> \in locks["registry"]
    /\ \E c \in Conns : conn[c].pc = "GetPlayer" /\ ~Free("registry", "r")

====
